---------------------------- MODULE Spec2Model ----------------------------
(***************************************************************************)
(* Model of the EVM router watcher of the bridge validator                 *)
(* (package evm: NewWatcher, Watch, beginWatching, processLogs and the     *)
(* Lock / Burn / Mint / Unlock log handlers).                              *)
(*                                                                         *)
(* The chain, the status repository (progress store), the asset mappings,  *)
(* the contracts service, the queue and the metrics helper are the         *)
(* collaborators of the watcher; they are modelled at their interface.     *)
(*                                                                         *)
(* The status columns of the transfer repository (package transfer) are    *)
(* modelled next to it, as a table of rows and the calls made on it.       *)
(***************************************************************************)
EXTENDS Integers, Sequences, FiniteSets, TLC

VARIABLES
    head,        \* chain: current block number returned by RetryBlockNumber
    store,       \* status repository: identity -> last block, for the rows that exist
    pc,          \* position of the watcher process
    config,      \* construction parameters and collaborators' configuration
    targetBlock, \* Watcher.targetBlock (uint64)
    fromBlock,   \* beginWatching: local fromBlock
    toBlock,     \* beginWatching: local toBlock / processLogs: endBlock
    batch,       \* processLogs: logs returned by RetryFilterLogs
    idx,         \* processLogs: position of the range loop in batch
    queue,       \* messages pushed with q.Push, in order
    metrics,     \* calls made to the metrics helper
    reloads,     \* detached ReloadMembers tasks: started, running, failed
    run,         \* history of the current run (construction parameters, ranges)
    faults,      \* number of collaborator failures injected so far
    restarts     \* number of constructions so far

\* the variables of the watcher
watcherVars == <<head, store, pc, config, targetBlock, fromBlock, toBlock, batch, idx,
                 queue, metrics, reloads, run, faults, restarts>>

VARIABLES
    transfers,   \* transfer repository: transaction id -> row of the transfers table
    call,        \* the last call made to the transfer repository, with its result
    before       \* the transfers table as it was when that call was made

\* the variables of the transfer repository
repositoryVars == <<transfers, call, before>>

VARIABLES
    self,        \* the watcher whose goroutine is taking steps: its ew.dbIdentifier
    parked       \* the other watchers of the process: identity -> their own state

\* the variables of the scheduling of several watchers
schedulerVars == <<self, parked>>

VARIABLES
    handling     \* transfer handler: position of Handle, its message and its service calls

\* the variables of the transfer handler
handlerVars == <<handling>>

\* what a step of a watcher leaves alone
nonWatcherVars == <<repositoryVars, schedulerVars, handlerVars>>

vars == <<head, store, pc, config, targetBlock, fromBlock, toBlock, batch, idx,
          queue, metrics, reloads, run, faults, restarts, transfers, call, before,
          self, parked, handling>>

---------------------------------------------------------------------------
(* Bounds of the model *)

\* highest block number the chain head reaches
MaxHead == 5
\* number of injected failures (store and chain client errors, kills)
MaxFaults == 1
\* number of constructions of the watcher (first start + restarts)
MaxRestarts == 2
\* width of the machine words standing for uint64 / int64
WordBits == 5
\* filterConfig.maxLogsBlocks as configured
MaxLogsBlocks == 1

(* Configuration of the collaborators *)

\* evmClient.BlockConfirmations()
BlockConfirmations == 2
\* evmClient.ChainID(): the chain this watcher listens on
ThisChainId == 1
\* constants.HederaNetworkId
HederaNetworkId == 0

Nil == [ChainId |-> 0 - 1, Asset |-> "", MinAmount |-> 0]
\* the identities of the watchers: chain id and router address
WatcherIds == <<"1-0xrouter", "1-0xother">>

\* ew.dbIdentifier of the watcher taking steps
dbIdentifier == self

---------------------------------------------------------------------------
(* Machine integers *)

RECURSIVE Pow2(_)
Pow2(n) == IF n = 0 THEN 1 ELSE 2 * Pow2(n - 1)

WordMod == Pow2(WordBits)

\* conversion to uint64 (wraps)
Uint64(x) == x % WordMod

\* conversion uint64 -> int64 (reinterprets the top bit)
Int64(u) == IF Uint64(u) >= WordMod \div 2 THEN Uint64(u) - WordMod ELSE Uint64(u)

\* helper.Max on uint64
Max(a, b) == IF a > b THEN a ELSE b

---------------------------------------------------------------------------
(* Decimal formatting: big.Int.String and strconv.FormatUint *)

Digits == <<"0", "1", "2", "3", "4", "5", "6", "7", "8", "9">>

RECURSIVE NatString(_)
NatString(n) ==
    IF n < 10 THEN <<Digits[n + 1]>>
    ELSE NatString(n \div 10) \o <<Digits[(n % 10) + 1]>>

BigIntString(n) == IF n < 0 THEN <<"-">> \o NatString(0 - n) ELSE NatString(n)

FormatUint(n) == NatString(n)

---------------------------------------------------------------------------
(* Asset mappings (config.Assets): native <-> wrapped resolution *)

\* <<native chain, native asset, wrapped chain, wrapped asset>>
Bridged ==
    { <<1, "tokA", 0, "hA">>,  <<1, "tokA", 2, "wA2">>,
      <<2, "B", 1, "wB">>,     <<2, "B", 0, "hB">>,
      <<0, "HBAR", 1, "wH">>,  <<0, "HBAR", 2, "wH2">> }

NativeAsset(chainId, asset) ==
    [ChainId |-> chainId, Asset |-> asset, MinAmount |-> config.minAmount]

\* mappings.NativeToWrapped: "" when the asset is not bridged to the target
NativeToWrapped(token, sourceChainId, targetChainId) ==
    LET hit == {e \in Bridged : e[1] = sourceChainId /\ e[2] = token /\ e[3] = targetChainId}
    IN  IF hit = {} THEN "" ELSE (CHOOSE e \in hit : TRUE)[4]

\* mappings.WrappedToNative: nil when the token wraps nothing on this chain
WrappedToNative(token, chainId) ==
    LET hit == {e \in Bridged : e[3] = chainId /\ e[4] = token}
    IN  IF hit = {} THEN Nil
        ELSE LET e == CHOOSE x \in hit : TRUE IN NativeAsset(e[1], e[2])

\* mappings.FungibleNativeAsset
FungibleNativeAsset(chainId, token) == NativeAsset(chainId, token)

\* mappings.GetOppositeAsset: the asset on sourceChainId that corresponds to
\* token on targetChainId
GetOppositeAsset(sourceChainId, targetChainId, token) ==
    LET asNative  == NativeToWrapped(token, targetChainId, sourceChainId)
        asWrapped == WrappedToNative(token, targetChainId)
    IN  IF asNative # "" THEN asNative
        ELSE IF asWrapped # Nil /\ asWrapped.ChainId = sourceChainId THEN asWrapped.Asset
        ELSE IF asWrapped # Nil
             THEN NativeToWrapped(asWrapped.Asset, asWrapped.ChainId, sourceChainId)
        ELSE token

\* contracts.RemoveDecimals: adjusts an amount to the target chain's precision
RemoveDecimals(amount, token) == amount \div config.decimalsFactor

\* hedera.AccountIDFromBytes: the bytes must hold shard, realm and number
AccountIDValid(receiver) == Len(receiver) = 3
AccountIDString(receiver) ==
    NatString(receiver[1]) \o <<".">> \o NatString(receiver[2]) \o <<".">> \o NatString(receiver[3])

\* common.BytesToAddress(receiver).String()
RECURSIVE HexBytes(_)
HexBytes(bs) == IF bs = <<>> THEN <<>> ELSE <<Digits[bs[1] + 1]>> \o HexBytes(Tail(bs))
AddressString(receiver) == <<"0", "x">> \o HexBytes(receiver)

\* evmClient.GetBlockTimestamp
GetBlockTimestamp(blockNumber) == 100 + 12 * blockNumber

---------------------------------------------------------------------------
(* Queue topics (package constants) *)

HederaFeeTransfer == "HEDERA_FEE_TRANSFER"
HederaMintHtsTransfer == "HEDERA_MINT_HTS_TRANSFER"
TopicMessageSubmission == "TOPIC_MESSAGE_SUBMISSION"
ReadOnlyHederaTransfer == "READ_ONLY_HEDERA_TRANSFER"
ReadOnlyHederaMintHtsTransfer == "READ_ONLY_HEDERA_MINT_HTS_TRANSFER"
ReadOnlyTransferSave == "READ_ONLY_TRANSFER_SAVE"

---------------------------------------------------------------------------
(* Logs *)

\* one decoded router log; chain is TargetChain of a Lock / Burn and
\* SourceChain of a Mint / Unlock
Log(kind, txHash, index, blockNumber, removed, malformed, token, amount, serviceFee, chain, receiver) ==
    [kind |-> kind, txHash |-> txHash, index |-> index, blockNumber |-> blockNumber,
     removed |-> removed, malformed |-> malformed, token |-> token, amount |-> amount,
     serviceFee |-> serviceFee, chain |-> chain, receiver |-> receiver]

\* fmt.Sprintf("%s-%d", eventLog.Raw.TxHash, eventLog.Raw.Index)
TransactionIdOf(eventLog) == <<eventLog.txHash, "-">> \o NatString(eventLog.index)

\* string(eventLog.TransactionId) of a Mint / Unlock
AppTransactionIdOf(eventLog) == <<"id", eventLog.txHash>>

\* the logs of the router contract, per block
ChainLogs(b) ==
    CASE b = 0 -> << Log("Mint", "0xd0", 0, 0, FALSE, FALSE, "wB", 4, 0, 2, <<>>),
                     Log("Unlock", "0xf0", 1, 0, FALSE, FALSE, "tokA", 4, 0, 2, <<>>) >>
      [] b = 1 -> << Log("Lock", "0xa1", 0, 1, FALSE, FALSE, "tokA", 10, 1, 2, <<7, 7>>),
                     Log("Lock", "0xa5", 1, 1, FALSE, FALSE, "tokA", 10, 1, 2, << >>),
                     Log("Lock", "0xa6", 2, 1, FALSE, FALSE, "tokA", 10, 1, 3, <<7, 7>>),
                     Log("Lock", "0xa7", 3, 1, FALSE, FALSE, "tokA", 4, 1, 2, <<7, 7>>) >>
      [] b = 2 -> << Log("Burn", "0xb0", 0, 2, TRUE, FALSE, "wH", 80, 0, 0, <<0, 0, 9>>),
                     Log("Burn", "0xb2", 1, 2, FALSE, FALSE, "wH", 80, 0, 0, <<0, 0, 9>>),
                     Log("Burn", "0xb5", 2, 2, FALSE, FALSE, "wH", 9, 0, 0, <<0, 0, 9>>),
                     Log("Burn", "0xb6", 3, 2, FALSE, FALSE, "wB", 90, 0, 0, <<0, 0, 3>>) >>
      [] b = 3 -> << Log("MemberUpdated", "0xc3", 0, 3, FALSE, FALSE, "", 0, 0, 0, <<>>),
                     Log("Lock", "0xe3", 1, 3, FALSE, TRUE, "tokA", 10, 1, 2, <<7>>),
                     Log("Lock", "0xa3", 2, 3, FALSE, FALSE, "tokA", 60, 10, 0, <<0, 0, 5>>) >>
      [] b = 4 -> << Log("Burn", "0xb4", 0, 4, FALSE, FALSE, "wB", 9, 0, 0, <<0, 0, 3>>) >>
      [] OTHER -> << >>

\* evmClient.RetryFilterLogs over the inclusive range [from, to]
RECURSIVE FilterLogs(_, _)
FilterLogs(from, to) ==
    IF from > to THEN << >> ELSE ChainLogs(from) \o FilterLogs(from + 1, to)

---------------------------------------------------------------------------
(* The log handlers, as the effects of one call *)

Metric(fn, sourceChainId, targetChainId, asset, transactionId) ==
    [fn |-> fn, source |-> sourceChainId, target |-> targetChainId,
     asset |-> asset, id |-> transactionId]

Message(topic, payload) == [Topic |-> topic, Payload |-> payload]

\* the effect of a handler call: messages pushed, metrics calls made, and
\* whether the call panicked
Effect(pushes, calls, panic) == [pushes |-> pushes, metrics |-> calls, panic |-> panic]
NoEffect == Effect(<< >>, {}, FALSE)

\* mutant: the removed flag is not looked at
RemovedIgnored(eventLog) == FALSE

\* eventLog.Raw.Removed
Removed(eventLog) == eventLog.removed

\* mutant: the block number is not compared with the target block
IsLiveAnyBlock(currentBlockNumber) == config.validator

\* ew.validator && currentBlockNumber >= ew.targetBlock
IsLive(currentBlockNumber) == config.validator /\ Uint64(currentBlockNumber) >= targetBlock

\* mutant: the amount of a Lock is not compared with the minimum
LockBelowMinimumIgnored(eventLog, nativeAsset) == FALSE

\* handleLockLog: eventLog.Amount.Cmp(nativeAsset.MinAmount) < 0
LockBelowMinimum(eventLog, nativeAsset) == eventLog.amount < nativeAsset.MinAmount

\* handleBurnLog: properAmount.Cmp(nativeAsset.MinAmount) < 0
BurnBelowMinimum(properAmount, nativeAsset) == properAmount < nativeAsset.MinAmount

\* mutant: the wrapped-to-wrapped check is missing
WrappedToWrappedAllowed(targetChainId, nativeAsset) == FALSE

\* handleBurnLog: targetChainId != nativeAsset.ChainId
WrappedToWrapped(targetChainId, nativeAsset) == targetChainId # nativeAsset.ChainId

\* mutant: the native chain of a Burn is the source chain, as it is for a Lock
BurnNativeChainIdFromSource(nativeAsset) == ThisChainId

\* handleBurnLog: NativeChainId: nativeAsset.ChainId
BurnNativeChainId(nativeAsset) == nativeAsset.ChainId

\* recipient account of a Lock / Burn, by the encoding of the target chain
RecipientAccount(targetChainId, receiver) ==
    IF targetChainId = HederaNetworkId THEN AccountIDString(receiver)
    ELSE AddressString(receiver)

\* handleLockLog: the topic of the push and the timestamp of the Transfer
LockDispatch(tr, blockNumber) ==
    IF IsLive(blockNumber)
    THEN IF tr.TargetChainId = HederaNetworkId
         THEN Message(HederaMintHtsTransfer, tr)
         ELSE Message(TopicMessageSubmission, tr)
    ELSE LET stamped == [tr EXCEPT !.Timestamp = FormatUint(GetBlockTimestamp(blockNumber))]
         IN  IF tr.TargetChainId = HederaNetworkId
             THEN Message(ReadOnlyHederaMintHtsTransfer, stamped)
             ELSE Message(ReadOnlyTransferSave, stamped)

\* handleBurnLog: the topic of the push and the timestamp of the Transfer
BurnDispatch(burnEvent, blockNumber) ==
    IF IsLive(blockNumber)
    THEN IF burnEvent.TargetChainId = HederaNetworkId
         THEN Message(HederaFeeTransfer, burnEvent)
         ELSE Message(TopicMessageSubmission, burnEvent)
    ELSE LET stamped == [burnEvent EXCEPT !.Timestamp = FormatUint(GetBlockTimestamp(blockNumber))]
         IN  IF burnEvent.TargetChainId = HederaNetworkId
             THEN Message(ReadOnlyHederaTransfer, stamped)
             ELSE Message(ReadOnlyTransferSave, stamped)

\* handleLockLog.  chain: outcome of evmClient.ChainID ("ok", "err" with a
\* value returned, "errNil" with a nil value); dec: outcome of RemoveDecimals
handleLockLog(eventLog, chain, dec) ==
    LET transactionId == TransactionIdOf(eventLog)
        targetChainId == eventLog.chain
        token         == eventLog.token
        sourceChainId == ThisChainId
        created ==
            (IF targetChainId # HederaNetworkId
             THEN {Metric("CreateMajorityReachedIfNotExists", sourceChainId, targetChainId, token, transactionId)}
             ELSE {})
            \cup {Metric("CreateUserGetHisTokensIfNotExists", sourceChainId, targetChainId, token, transactionId)}
        wrappedAsset == NativeToWrapped(token, sourceChainId, targetChainId)
        nativeAsset  == FungibleNativeAsset(sourceChainId, token)
        difference   == eventLog.amount - eventLog.serviceFee
        properAmount == IF targetChainId = HederaNetworkId
                        THEN RemoveDecimals(difference, token) ELSE difference
        tr == [TransactionId |-> transactionId,
               SourceChainId |-> sourceChainId,
               TargetChainId |-> targetChainId,
               NativeChainId |-> sourceChainId,
               SourceAsset   |-> token,
               TargetAsset   |-> wrappedAsset,
               NativeAsset   |-> token,
               Receiver      |-> RecipientAccount(targetChainId, eventLog.receiver),
               Amount        |-> BigIntString(properAmount),
               Timestamp     |-> << >>]
    IN  IF Removed(eventLog) THEN NoEffect
        ELSE IF Len(eventLog.receiver) = 0 THEN NoEffect
        ELSE IF chain = "errNil" THEN Effect(<< >>, {}, TRUE)
        ELSE IF chain = "err" THEN NoEffect
        ELSE IF targetChainId = HederaNetworkId /\ ~AccountIDValid(eventLog.receiver)
             THEN Effect(<< >>, created, FALSE)
        ELSE IF wrappedAsset = "" THEN Effect(<< >>, created, FALSE)
        ELSE IF LockBelowMinimum(eventLog, nativeAsset) THEN Effect(<< >>, created, FALSE)
        ELSE IF targetChainId = HederaNetworkId /\ dec = "err" THEN Effect(<< >>, created, FALSE)
        ELSE IF properAmount = 0 THEN Effect(<< >>, created, FALSE)
        ELSE Effect(<< LockDispatch(tr, eventLog.blockNumber) >>, created, FALSE)

\* handleBurnLog
handleBurnLog(eventLog, chain, dec) ==
    LET nativeAsset   == WrappedToNative(eventLog.token, ThisChainId)
        sourceChainId == ThisChainId
        targetChainId == eventLog.chain
        transactionId == TransactionIdOf(eventLog)
        token         == eventLog.token
        created ==
            IF config.monitoring
            THEN {IF targetChainId # HederaNetworkId
                  THEN Metric("CreateMajorityReachedIfNotExists", sourceChainId, targetChainId, token, transactionId)
                  ELSE Metric("CreateFeeTransferredIfNotExists", sourceChainId, targetChainId, token, transactionId)}
                 \cup {Metric("CreateUserGetHisTokensIfNotExists", sourceChainId, targetChainId, token, transactionId)}
            ELSE {}
        properAmount == IF targetChainId = HederaNetworkId
                        THEN RemoveDecimals(eventLog.amount, token) ELSE eventLog.amount
        burnEvent == [TransactionId |-> transactionId,
                      SourceChainId |-> sourceChainId,
                      TargetChainId |-> targetChainId,
                      NativeChainId |-> BurnNativeChainId(nativeAsset),
                      SourceAsset   |-> token,
                      TargetAsset   |-> nativeAsset.Asset,
                      NativeAsset   |-> nativeAsset.Asset,
                      Receiver      |-> RecipientAccount(targetChainId, eventLog.receiver),
                      Amount        |-> BigIntString(properAmount),
                      Timestamp     |-> << >>]
    IN  IF Removed(eventLog) THEN NoEffect
        ELSE IF Len(eventLog.receiver) = 0 THEN NoEffect
        ELSE IF chain # "ok" THEN NoEffect
        ELSE IF nativeAsset = Nil THEN NoEffect
        ELSE IF WrappedToWrapped(targetChainId, nativeAsset) THEN Effect(<< >>, created, FALSE)
        ELSE IF targetChainId = HederaNetworkId /\ ~AccountIDValid(eventLog.receiver)
             THEN Effect(<< >>, created, FALSE)
        ELSE IF targetChainId = HederaNetworkId /\ dec = "err" THEN Effect(<< >>, created, FALSE)
        ELSE IF properAmount = 0 THEN Effect(<< >>, created, FALSE)
        ELSE IF BurnBelowMinimum(properAmount, nativeAsset) THEN Effect(<< >>, created, FALSE)
        ELSE Effect(<< BurnDispatch(burnEvent, eventLog.blockNumber) >>, created, FALSE)

\* mutant: the completion metric is keyed by the token of the log itself
SetUserGetHisTokensOwnToken(eventLog) ==
    Metric("SetUserGetHisTokens", eventLog.chain, ThisChainId, eventLog.token,
           AppTransactionIdOf(eventLog))

\* handleMintLog / handleUnlockLog: the completion metric of the transfer
SetUserGetHisTokens(eventLog) ==
    LET sourceChainId == eventLog.chain
        targetChainId == ThisChainId
        oppositeToken == GetOppositeAsset(sourceChainId, targetChainId, eventLog.token)
    IN  Metric("SetUserGetHisTokens", sourceChainId, targetChainId, oppositeToken,
               AppTransactionIdOf(eventLog))

\* handleMintLog
handleMintLog(eventLog, chain) ==
    IF Removed(eventLog) THEN NoEffect
    ELSE IF chain # "ok" THEN NoEffect
    ELSE Effect(<< >>, {SetUserGetHisTokens(eventLog)}, FALSE)

\* handleUnlockLog
handleUnlockLog(eventLog, chain) ==
    IF Removed(eventLog) THEN NoEffect
    ELSE IF chain # "ok" THEN NoEffect
    ELSE Effect(<< >>, {SetUserGetHisTokens(eventLog)}, FALSE)

---------------------------------------------------------------------------
(* Business rules, stated on the data of a log *)

\* the amount of a Lock / Burn after the service fee, in the precision of
\* the target chain
AdjustedAmount(eventLog) ==
    LET difference == IF eventLog.kind = "Lock"
                      THEN eventLog.amount - eventLog.serviceFee ELSE eventLog.amount
    IN  IF eventLog.chain = HederaNetworkId
        THEN difference \div config.decimalsFactor ELSE difference

\* a Lock the rules reject: empty receiver, asset not bridged to the target
\* chain, amount below the minimum, zero adjusted amount
RejectedLock(eventLog) ==
    \/ eventLog.receiver = << >>
    \/ \A e \in Bridged : ~(e[1] = ThisChainId /\ e[2] = eventLog.token /\ e[3] = eventLog.chain)
    \/ eventLog.amount < config.minAmount
    \/ AdjustedAmount(eventLog) = 0

\* a Burn the rules reject: empty receiver, token that wraps nothing on this
\* chain, target chain other than the native one (wrapped-to-wrapped), zero
\* adjusted amount, adjusted amount below the minimum
RejectedBurn(eventLog) ==
    \/ eventLog.receiver = << >>
    \/ \A e \in Bridged : ~(e[3] = ThisChainId /\ e[4] = eventLog.token)
    \/ \E e \in Bridged : e[3] = ThisChainId /\ e[4] = eventLog.token /\ e[1] # eventLog.chain
    \/ AdjustedAmount(eventLog) = 0
    \/ AdjustedAmount(eventLog) < config.minAmount

\* a well-formed Lock or Burn of the canonical chain that a business rule rejects
BusinessRuleRejected(eventLog) ==
    /\ ~eventLog.removed
    /\ ~eventLog.malformed
    /\ \/ eventLog.kind = "Lock" /\ RejectedLock(eventLog)
       \/ eventLog.kind = "Burn" /\ RejectedBurn(eventLog)

\* block b holds an event that a business rule rejects
HoldsRejected(b) ==
    \E i \in 1 .. Len(ChainLogs(b)) : BusinessRuleRejected(ChainLogs(b)[i])

---------------------------------------------------------------------------
(* Status repository (progress store): Get / Create / Update of one row *)

\* the repository holds one row {identity, last block} per identity created
StoreHas(identity) == identity \in DOMAIN store
StoreGet(identity) == store[identity]
StoreCreate(identity, block) ==
    [i \in DOMAIN store \cup {identity} |-> IF i = identity THEN block ELSE store[i]]
StoreUpdate(identity, block) ==
    [i \in DOMAIN store \cup {identity} |-> IF i = identity THEN block ELSE store[i]]

---------------------------------------------------------------------------
(* Construction *)

\* mutant: the target block is always taken from the start block parameter
ConstructedTargetBlockFromStart(startBlock, currentBlock) == Uint64(startBlock)

\* NewWatcher: targetBlock := helper.Max(0, currentBlock - BlockConfirmations()),
\* replaced by uint64(startBlock) when a start block is given
ConstructedTargetBlock(startBlock, currentBlock) ==
    IF startBlock = 0
    THEN Max(0, Uint64(currentBlock - BlockConfirmations))
    ELSE Uint64(startBlock)

\* mutant: without a start block the watermark is recomputed from the head
\* even when a row exists
ConstructedStoreRecomputed(startBlock, currentBlock) ==
    IF startBlock = 0
    THEN StoreUpdate(dbIdentifier, Int64(Max(0, Uint64(currentBlock - BlockConfirmations))))
    ELSE StoreUpdate(dbIdentifier, startBlock)

\* mutant: a given start block does not replace an existing row
ConstructedStoreKeepsRow(startBlock, currentBlock) ==
    IF StoreHas(dbIdentifier)
    THEN store
    ELSE StoreCreate(dbIdentifier,
                     IF startBlock = 0
                     THEN Int64(Max(0, Uint64(currentBlock - BlockConfirmations)))
                     ELSE startBlock)

\* NewWatcher: the repository after the starting-block policy was applied
ConstructedStore(startBlock, currentBlock) ==
    IF startBlock = 0
    THEN IF ~StoreHas(dbIdentifier)
         THEN StoreCreate(dbIdentifier,
                          Int64(Max(0, Uint64(currentBlock - BlockConfirmations))))
         ELSE store
    ELSE StoreUpdate(dbIdentifier, startBlock)

\* start blocks the operator may configure (0: none given)
StartBlocks == {0, 1, 2}

\* no process is running: it was never started, was killed, or panicked
Stopped == pc \in {"down", "panicked"}

\* no membership refresh was started
NoReloads == [started |-> 0, running |-> 0, failed |-> 0]

NewRun(startBlock) ==
    [startBlock |-> startBlock, startHead |-> head,
     hadPrior |-> StoreHas(dbIdentifier),
     prior |-> IF StoreHas(dbIdentifier) THEN StoreGet(dbIdentifier) ELSE 0,
     qStart |-> Len(queue), done |-> 0, okTo |-> 0, failed |-> << >>, last |-> "",
     passed |-> run.passed,
     rewound |-> IF startBlock = 0 THEN run.rewound
                 ELSE run.rewound \cup {b \in run.passed : b >= startBlock}]

NewWatcher ==
    /\ Stopped
    /\ restarts < MaxRestarts
    /\ \E startBlock \in StartBlocks :
          /\ store' = ConstructedStore(startBlock, head)
          /\ targetBlock' = ConstructedTargetBlock(startBlock, head)
          /\ run' = NewRun(startBlock)
    /\ pc' = "constructed"
    /\ restarts' = restarts + 1
    /\ reloads' = [reloads EXCEPT !.running = 0]
    /\ UNCHANGED <<head, config, fromBlock, toBlock, batch, idx, queue, metrics, faults>>
    /\ UNCHANGED nonWatcherVars

\* NewWatcher: log.Fatalf when the head or the repository cannot be read or
\* written; the process exits before a watcher exists
NewWatcherFatal ==
    /\ Stopped
    /\ restarts < MaxRestarts
    /\ UNCHANGED vars

\* Watch: go ew.beginWatching(queue)
Watch ==
    /\ pc = "constructed"
    /\ pc' = "begin"
    /\ UNCHANGED <<head, store, config, targetBlock, fromBlock, toBlock, batch, idx,
                   queue, metrics, reloads, run, faults, restarts>>
    /\ UNCHANGED nonWatcherVars

---------------------------------------------------------------------------
(* beginWatching *)

\* beginWatching, before the loop: repository.Get, retried after a sleep
BeginGet ==
    /\ pc = "begin"
    /\ \/ /\ pc' = "get"
          /\ UNCHANGED faults
       \/ /\ faults < MaxFaults
          /\ faults' = faults + 1
          /\ pc' = "beginSleep"
    /\ UNCHANGED <<head, store, config, targetBlock, fromBlock, toBlock, batch, idx,
                   queue, metrics, reloads, run, restarts>>
    /\ UNCHANGED nonWatcherVars

\* loop: fromBlock, err := repository.Get; on error `continue` (no sleep)
LoopGet ==
    /\ pc = "get"
    /\ \/ /\ fromBlock' = StoreGet(dbIdentifier)
          /\ pc' = "head"
          /\ UNCHANGED faults
       \/ /\ faults < MaxFaults
          /\ faults' = faults + 1
          /\ UNCHANGED <<fromBlock, pc>>
    /\ UNCHANGED <<head, store, config, targetBlock, toBlock, batch, idx,
                   queue, metrics, reloads, run, restarts>>
    /\ UNCHANGED nonWatcherVars

\* toBlock := int64(currentBlock - BlockConfirmations())
ConfirmedBlock(currentBlock) == Int64(Uint64(currentBlock - BlockConfirmations))

\* if toBlock-fromBlock > maxLogsBlocks { toBlock = fromBlock + maxLogsBlocks }
ClampedToBlock(from, to) ==
    IF to - from > MaxLogsBlocks THEN from + MaxLogsBlocks ELSE to

\* mutant: the idle test is left out, a range is processed whatever the
\* confirmed block
LoopHeadNeverIdle ==
    /\ pc = "head"
    /\ \/ /\ toBlock' = ClampedToBlock(fromBlock, ConfirmedBlock(head))
          /\ pc' = "filter"
          /\ UNCHANGED faults
       \/ /\ faults < MaxFaults
          /\ faults' = faults + 1
          /\ pc' = "sleep"
          /\ UNCHANGED toBlock
    /\ run' = [run EXCEPT !.last = ""]
    /\ UNCHANGED <<head, store, config, targetBlock, fromBlock, batch, idx,
                   queue, metrics, reloads, restarts>>
    /\ UNCHANGED nonWatcherVars

\* loop: RetryBlockNumber, the confirmed block, the idle case and the clamp
LoopHead ==
    /\ pc = "head"
    /\ \/ /\ fromBlock > ConfirmedBlock(head)
          /\ pc' = "sleep"
          /\ UNCHANGED <<toBlock, faults>>
       \/ /\ fromBlock <= ConfirmedBlock(head)
          /\ toBlock' = ClampedToBlock(fromBlock, ConfirmedBlock(head))
          /\ pc' = "filter"
          /\ UNCHANGED faults
       \/ /\ faults < MaxFaults
          /\ faults' = faults + 1
          /\ pc' = "sleep"
          /\ UNCHANGED toBlock
    /\ run' = [run EXCEPT !.last = ""]
    /\ UNCHANGED <<head, store, config, targetBlock, fromBlock, batch, idx,
                   queue, metrics, reloads, restarts>>
    /\ UNCHANGED nonWatcherVars

\* time.Sleep(ew.sleepDuration)
Sleep ==
    /\ pc \in {"sleep", "beginSleep"}
    /\ pc' = IF pc = "sleep" THEN "get" ELSE "begin"
    /\ UNCHANGED <<head, store, config, targetBlock, fromBlock, toBlock, batch, idx,
                   queue, metrics, reloads, run, faults, restarts>>
    /\ UNCHANGED nonWatcherVars

---------------------------------------------------------------------------
(* processLogs *)

\* mutant: the error of RetryFilterLogs is not returned; the range is taken
\* as one without logs
LoopFilterErrorIgnored ==
    /\ pc = "filter"
    /\ \/ /\ batch' = FilterLogs(fromBlock, toBlock)
          /\ UNCHANGED <<faults, run>>
       \/ /\ faults < MaxFaults
          /\ faults' = faults + 1
          /\ batch' = << >>
          /\ run' = [run EXCEPT !.last = "filterFailed"]
    /\ idx' = 1
    /\ pc' = "logs"
    /\ UNCHANGED <<head, store, config, targetBlock, fromBlock, toBlock,
                   queue, metrics, reloads, restarts>>
    /\ UNCHANGED nonWatcherVars

\* processLogs: RetryFilterLogs over [fromBlock, endBlock]; on error
\* processLogs returns it and beginWatching sleeps
LoopFilter ==
    /\ pc = "filter"
    /\ \/ /\ batch' = FilterLogs(fromBlock, toBlock)
          /\ idx' = 1
          /\ pc' = "logs"
          /\ UNCHANGED <<faults, run>>
       \/ /\ faults < MaxFaults
          /\ faults' = faults + 1
          /\ pc' = "sleep"
          /\ run' = [run EXCEPT !.last = "filterFailed"]
          /\ UNCHANGED <<batch, idx>>
    /\ UNCHANGED <<head, store, config, targetBlock, fromBlock, toBlock,
                   queue, metrics, reloads, restarts>>
    /\ UNCHANGED nonWatcherVars

\* the process is killed from outside
Die ==
    /\ pc' = "down"
    /\ batch' = << >>
    /\ idx' = 1
    /\ fromBlock' = 0
    /\ toBlock' = 0

\* the watcher goroutine panics (nil pointer dereference): the runtime ends
\* the process
Panic ==
    /\ pc' = "panicked"
    /\ batch' = << >>
    /\ idx' = 1
    /\ fromBlock' = 0
    /\ toBlock' = 0

\* mutant: the messages of a handler are put at the front of the queue
ApplyPushesFirst(effect) ==
    IF effect.panic
    THEN /\ Panic
         /\ UNCHANGED <<queue, metrics>>
    ELSE /\ queue' = effect.pushes \o queue
         /\ metrics' = metrics \cup effect.metrics
         /\ idx' = idx + 1
         /\ UNCHANGED <<pc, batch, fromBlock, toBlock>>

\* the effect of one handler call on the queue, the metrics and the loop
Apply(effect) ==
    IF effect.panic
    THEN /\ Panic
         /\ UNCHANGED <<queue, metrics>>
    ELSE /\ queue' = queue \o effect.pushes
         /\ metrics' = metrics \cup effect.metrics
         /\ idx' = idx + 1
         /\ UNCHANGED <<pc, batch, fromBlock, toBlock>>

\* a Parse*Log error: the error branch logs <event>.Raw.TxHash and continues;
\* the parser returned a nil event (the dereference panics) or a partial one
ParseError ==
    \/ /\ Panic
       /\ UNCHANGED <<queue, metrics>>
    \/ /\ idx' = idx + 1
       /\ UNCHANGED <<pc, batch, fromBlock, toBlock, queue, metrics>>

\* outcomes of the collaborators' calls inside a handler, within the budget
\* of injected failures
Outcomes(eventLog) ==
    { o \in [chain : {"ok", "err", "errNil"}, dec : {"ok", "err"}] :
        /\ (o.chain # "ok" => o.dec = "ok")
        /\ (o.dec # "ok" => eventLog.kind \in {"Lock", "Burn"} /\ eventLog.chain = HederaNetworkId)
        /\ (o.chain # "ok" \/ o.dec # "ok") => faults < MaxFaults }

Charged(o) == IF o.chain # "ok" \/ o.dec # "ok" THEN faults + 1 ELSE faults

Current(kind) == pc = "logs" /\ idx <= Len(batch) /\ batch[idx].kind = kind

\* processLogs: a log with the Lock topic
ProcessLockLog ==
    /\ Current("Lock")
    /\ \/ /\ batch[idx].malformed
          /\ ParseError
          /\ UNCHANGED faults
       \/ /\ ~batch[idx].malformed
          /\ \E o \in Outcomes(batch[idx]) :
                /\ Apply(handleLockLog(batch[idx], o.chain, o.dec))
                /\ faults' = Charged(o)
    /\ UNCHANGED <<head, store, config, targetBlock, reloads, run, restarts>>
    /\ UNCHANGED nonWatcherVars

\* processLogs: a log with the Burn topic
ProcessBurnLog ==
    /\ Current("Burn")
    /\ \/ /\ batch[idx].malformed
          /\ ParseError
          /\ UNCHANGED faults
       \/ /\ ~batch[idx].malformed
          /\ \E o \in Outcomes(batch[idx]) :
                /\ Apply(handleBurnLog(batch[idx], o.chain, o.dec))
                /\ faults' = Charged(o)
    /\ UNCHANGED <<head, store, config, targetBlock, reloads, run, restarts>>
    /\ UNCHANGED nonWatcherVars

\* processLogs: a log with the Mint topic
ProcessMintLog ==
    /\ Current("Mint")
    /\ \/ /\ batch[idx].malformed
          /\ ParseError
          /\ UNCHANGED faults
       \/ /\ ~batch[idx].malformed
          /\ \E o \in Outcomes(batch[idx]) :
                /\ Apply(handleMintLog(batch[idx], o.chain))
                /\ faults' = Charged(o)
    /\ UNCHANGED <<head, store, config, targetBlock, reloads, run, restarts>>
    /\ UNCHANGED nonWatcherVars

\* processLogs: a log with the Unlock topic
ProcessUnlockLog ==
    /\ Current("Unlock")
    /\ \/ /\ batch[idx].malformed
          /\ ParseError
          /\ UNCHANGED faults
       \/ /\ ~batch[idx].malformed
          /\ \E o \in Outcomes(batch[idx]) :
                /\ Apply(handleUnlockLog(batch[idx], o.chain))
                /\ faults' = Charged(o)
    /\ UNCHANGED <<head, store, config, targetBlock, reloads, run, restarts>>
    /\ UNCHANGED nonWatcherVars

\* mutant: ReloadMembers is called in place; processLogs waits for it and
\* returns its failure
ProcessMemberUpdatedLogAwaited ==
    /\ Current("MemberUpdated")
    /\ \/ /\ reloads' = [reloads EXCEPT !.started = @ + 1]
          /\ idx' = idx + 1
          /\ UNCHANGED <<pc, batch>>
       \/ /\ reloads' = [reloads EXCEPT !.started = @ + 1, !.failed = @ + 1]
          /\ pc' = "sleep"
          /\ batch' = << >>
          /\ idx' = 1
    /\ UNCHANGED <<head, store, config, targetBlock, fromBlock, toBlock,
                   queue, metrics, run, faults, restarts>>
    /\ UNCHANGED nonWatcherVars

\* processLogs: a log with the MemberUpdated topic: go ew.contracts.ReloadMembers()
ProcessMemberUpdatedLog ==
    /\ Current("MemberUpdated")
    /\ reloads' = [reloads EXCEPT !.started = @ + 1, !.running = @ + 1]
    /\ idx' = idx + 1
    /\ UNCHANGED <<head, store, pc, config, targetBlock, fromBlock, toBlock, batch,
                   queue, metrics, run, faults, restarts>>
    /\ UNCHANGED nonWatcherVars

\* contracts.ReloadMembers, running in its own goroutine: it ends, with the
\* membership data refreshed or with a failure, at any time while the
\* process lives, or never; it works on the membership data only
ReloadMembers ==
    /\ ~Stopped
    /\ reloads.running > 0
    /\ \/ reloads' = [reloads EXCEPT !.running = @ - 1]
       \/ reloads' = [reloads EXCEPT !.running = @ - 1, !.failed = @ + 1]
    /\ UNCHANGED <<head, store, pc, config, targetBlock, fromBlock, toBlock, batch, idx,
                   queue, metrics, run, faults, restarts>>
    /\ UNCHANGED nonWatcherVars

\* mutant: the watermark skips the block after the range
BlockToBeUpdatedSkips(endBlock) == endBlock + 2

\* mutant: the watermark stays on the last block of the range
BlockToBeUpdatedStale(endBlock) == endBlock

\* blockToBeUpdated := endBlock + 1
BlockToBeUpdated(endBlock) == endBlock + 1

\* mutant: the update is made on the row of the first watcher, whichever
\* watcher makes it
UpdateWatermarkFirstRow ==
    /\ pc = "logs"
    /\ idx > Len(batch)
    /\ \/ /\ store' = StoreUpdate(WatcherIds[1], BlockToBeUpdated(toBlock))
          /\ run' = [run EXCEPT !.okTo = toBlock, !.done = @ + 1]
          /\ UNCHANGED faults
       \/ /\ faults < MaxFaults
          /\ faults' = faults + 1
          /\ run' = [run EXCEPT !.failed = Append(@, <<fromBlock, toBlock>>)]
          /\ UNCHANGED store
    /\ pc' = "sleep"
    /\ batch' = << >>
    /\ idx' = 1
    /\ UNCHANGED <<head, config, targetBlock, fromBlock, toBlock, queue, metrics,
                   reloads, restarts>>
    /\ UNCHANGED nonWatcherVars

\* processLogs: repository.Update after the range loop, then back in
\* beginWatching the sleep of either branch
UpdateWatermark ==
    /\ pc = "logs"
    /\ idx > Len(batch)
    /\ \/ /\ store' = StoreUpdate(dbIdentifier, BlockToBeUpdated(toBlock))
          /\ run' = [run EXCEPT !.okTo = toBlock, !.done = @ + 1,
                                 !.passed = @ \cup {b \in fromBlock .. toBlock : HoldsRejected(b)},
                                 !.rewound = @ \ (fromBlock .. toBlock)]
          /\ UNCHANGED faults
       \/ /\ faults < MaxFaults
          /\ faults' = faults + 1
          /\ run' = [run EXCEPT !.failed = Append(@, <<fromBlock, toBlock>>)]
          /\ UNCHANGED store
    /\ pc' = "sleep"
    /\ batch' = << >>
    /\ idx' = 1
    /\ UNCHANGED <<head, config, targetBlock, fromBlock, toBlock, queue, metrics,
                   reloads, restarts>>
    /\ UNCHANGED nonWatcherVars

---------------------------------------------------------------------------
(* Environment *)

\* new blocks are mined.  The head is read only by RetryBlockNumber, in
\* NewWatcher and at the top of a loop iteration, so the blocks mined since
\* the last read are added right before the next one
ChainAdvance ==
    /\ head < MaxHead
    /\ (Stopped \/ pc = "get")
    /\ head' = head + 1
    /\ UNCHANGED <<store, pc, config, targetBlock, fromBlock, toBlock, batch, idx,
                   queue, metrics, reloads, run, faults, restarts>>
    /\ UNCHANGED nonWatcherVars

\* the process is stopped from outside at any point
Crash ==
    /\ ~Stopped
    /\ faults < MaxFaults
    /\ faults' = faults + 1
    /\ Die
    /\ UNCHANGED <<head, store, config, targetBlock, queue, metrics, reloads, run,
                   restarts>>
    /\ UNCHANGED nonWatcherVars

---------------------------------------------------------------------------
(* Several watchers in one process *)

\* the state a watcher owns: the fields of its Watcher value and the locals
\* of its goroutine
OwnState ==
    [pc |-> pc, targetBlock |-> targetBlock, fromBlock |-> fromBlock, toBlock |-> toBlock,
     batch |-> batch, idx |-> idx, run |-> run, restarts |-> restarts]

\* the state of a watcher that was not constructed yet
NotConstructed ==
    [pc |-> "down", targetBlock |-> 0, fromBlock |-> 0, toBlock |-> 0,
     batch |-> << >>, idx |-> 1,
     run |-> [startBlock |-> 0, startHead |-> 0, hadPrior |-> FALSE, prior |-> 0,
              qStart |-> 0, done |-> 0, okTo |-> 0, failed |-> << >>, last |-> "",
              passed |-> {}, rewound |-> {}],
     restarts |-> MaxRestarts - 1]

\* the scheduler lets the goroutine of another watcher take the next steps:
\* each watcher goes on from where it was, on its own state
Switch ==
    /\ \E w \in DOMAIN parked :
          /\ self' = w
          /\ parked' = [i \in (DOMAIN parked \ {w}) \cup {self} |->
                            IF i = self THEN OwnState ELSE parked[i]]
          /\ pc' = parked[w].pc
          /\ targetBlock' = parked[w].targetBlock
          /\ fromBlock' = parked[w].fromBlock
          /\ toBlock' = parked[w].toBlock
          /\ batch' = parked[w].batch
          /\ idx' = parked[w].idx
          /\ run' = parked[w].run
          /\ restarts' = parked[w].restarts
    /\ UNCHANGED <<head, store, config, queue, metrics, reloads, faults>>
    /\ UNCHANGED <<repositoryVars, handlerVars>>

---------------------------------------------------------------------------
(* Transfer repository (package transfer): status columns of a Transfer row *)

\* number of calls made to the transfer repository
MaxCalls == 3

\* package transfer (model): values of the status column
StatusInitial == "INITIAL"
StatusInsufficientFee == "INSUFFICIENT_FEE"
StatusInProgress == "IN_PROGRESS"
StatusCompleted == "COMPLETED"
StatusFailed == "FAILED"
StatusRecovered == "RECOVERED"
\* values of the signature_msg_status column
StatusSignatureSubmitted == "SIGNATURE_SUBMITTED"
StatusSignatureMined == "SIGNATURE_MINED"
StatusSignatureFailed == "SIGNATURE_FAILED"
\* values of the eth_tx_status column
StatusEthTxSubmitted == "ETH_TX_SUBMITTED"
StatusEthTxMined == "ETH_TX_MINED"
StatusEthTxReverted == "ETH_TX_REVERTED"
\* values of the eth_tx_msg_status column
StatusEthTxMsgSubmitted == "ETH_TX_MSG_SUBMITTED"
StatusEthTxMsgMined == "ETH_TX_MSG_MINED"
StatusEthTxMsgFailed == "ETH_TX_MSG_FAILED"

\* the columns of entity.Transfer that the repository writes
Columns == {"status", "signature_msg_status", "eth_tx_status", "eth_tx_msg_status",
            "eth_tx_hash", "amount"}

\* errors returned by the repository ("" is nil)
ErrInvalidSignatureStatus == "invalid signature status"
ErrInvalidStatus == "invalid status"
ErrDatabase == "database error"

\* the result of a repository call: the table after it and the error returned
Result(rows, err) == [rows |-> rows, err |-> err]

\* create: a new row with the given status, the other status columns empty
CreatedRow(amount, status) ==
    [c \in Columns |-> IF c = "status" THEN status ELSE IF c = "amount" THEN amount ELSE ""]

\* dbClient.Create(tx)
create(rows, txId, amount, status, dbOk) ==
    IF ~dbOk THEN Result(rows, ErrDatabase)
    ELSE Result([t \in DOMAIN rows \cup {txId} |->
                    IF t = txId THEN CreatedRow(amount, status) ELSE rows[t]], "")

\* mutant: the update is not restricted to the row of the transaction id
UpdateColumnEveryRow(rows, txId, column, value, dbOk) ==
    IF ~dbOk THEN Result(rows, ErrDatabase)
    ELSE Result([t \in DOMAIN rows |-> [rows[t] EXCEPT ![column] = value]], "")

\* Model(entity.Transfer{}).Where("transaction_id = ?", txId).UpdateColumn(column, value)
UpdateColumn(rows, txId, column, value, dbOk) ==
    IF ~dbOk THEN Result(rows, ErrDatabase)
    ELSE Result([t \in DOMAIN rows |->
                    IF t = txId THEN [rows[t] EXCEPT ![column] = value] ELSE rows[t]], "")

\* Model(entity.Transfer{}).Where("transaction_id = ?", txId).Updates(entity.Transfer{...}):
\* the non-zero fields of the struct are written
Updates(rows, txId, fields, dbOk) ==
    IF ~dbOk THEN Result(rows, ErrDatabase)
    ELSE Result([t \in DOMAIN rows |->
                    IF t = txId
                    THEN [c \in Columns |->
                            IF c \in DOMAIN fields /\ fields[c] # "" THEN fields[c] ELSE rows[t][c]]
                    ELSE rows[t]], "")

\* mutant: every value is accepted
isValidStatusAny(status, possibleStatuses) == TRUE

\* isValidStatus
isValidStatus(status, possibleStatuses) ==
    \E i \in 1 .. Len(possibleStatuses) : status = possibleStatuses[i]

\* updateStatus
updateStatus(rows, txId, status, dbOk) ==
    IF /\ status # StatusInitial
       /\ status # StatusInsufficientFee
       /\ status # StatusInProgress
       /\ status # StatusCompleted
    THEN Result(rows, ErrInvalidSignatureStatus)
    ELSE UpdateColumn(rows, txId, "status", status, dbOk)

\* mutant: a failure value written on a track forces the overall Status to
\* Failed
baseUpdateStatusForcingStatus(rows, statusColumn, txId, status, possibleStatuses, dbOk) ==
    IF ~isValidStatus(status, possibleStatuses)
    THEN Result(rows, ErrInvalidStatus)
    ELSE IF status \in {StatusSignatureFailed, StatusEthTxMsgFailed}
         THEN Updates(rows, txId,
                      [c \in {statusColumn, "status"} |->
                          IF c = "status" THEN StatusFailed ELSE status], dbOk)
         ELSE UpdateColumn(rows, txId, statusColumn, status, dbOk)

\* baseUpdateStatus
baseUpdateStatus(rows, statusColumn, txId, status, possibleStatuses, dbOk) ==
    IF ~isValidStatus(status, possibleStatuses)
    THEN Result(rows, ErrInvalidStatus)
    ELSE UpdateColumn(rows, txId, statusColumn, status, dbOk)

\* updateSignatureStatus
updateSignatureStatus(rows, txId, status, dbOk) ==
    baseUpdateStatus(rows, "signature_msg_status", txId, status,
                     <<StatusSignatureSubmitted, StatusSignatureMined, StatusSignatureFailed>>, dbOk)

\* updateEthereumTxStatus
updateEthereumTxStatus(rows, txId, status, dbOk) ==
    baseUpdateStatus(rows, "eth_tx_status", txId, status,
                     <<StatusEthTxSubmitted, StatusEthTxMined, StatusEthTxReverted>>, dbOk)

\* updateEthereumTxMsgStatus
updateEthereumTxMsgStatus(rows, txId, status, dbOk) ==
    baseUpdateStatus(rows, "eth_tx_msg_status", txId, status,
                     <<StatusEthTxMsgSubmitted, StatusEthTxMsgMined, StatusEthTxMsgFailed>>, dbOk)

\* UpdateEthTxMined: entity.Transfer{EthTxStatus: ..., Status: ...}
UpdateEthTxMinedFields ==
    [c \in {"eth_tx_status", "status"} |->
        IF c = "eth_tx_status" THEN StatusEthTxMined ELSE StatusCompleted]

\* UpdateEthTxReverted: entity.Transfer{EthTxStatus: ..., Status: ...}
UpdateEthTxRevertedFields ==
    [c \in {"eth_tx_status", "status"} |->
        IF c = "eth_tx_status" THEN StatusEthTxReverted ELSE StatusFailed]

\* UpdateStatusSignatureSubmitted: entity.Transfer{SignatureMsgStatus: ..., Status: ...}
UpdateStatusSignatureSubmittedFields ==
    [c \in {"signature_msg_status", "status"} |->
        IF c = "signature_msg_status" THEN StatusSignatureSubmitted ELSE StatusInProgress]

\* UpdateEthTxSubmitted: entity.Transfer{EthTxStatus: ..., EthTxHash: hash}
UpdateEthTxSubmittedFields(hash) ==
    [c \in {"eth_tx_status", "eth_tx_hash"} |->
        IF c = "eth_tx_status" THEN StatusEthTxSubmitted ELSE hash]

\* inputs of the repository calls
TxIds == {"0.0.1-1", "0.0.1-2"}
Hashes == {"", "0xh"}
AllStatuses ==
    {StatusInitial, StatusInsufficientFee, StatusInProgress, StatusCompleted, StatusFailed,
     StatusRecovered, StatusSignatureSubmitted, StatusSignatureMined, StatusSignatureFailed,
     StatusEthTxSubmitted, StatusEthTxMined, StatusEthTxReverted,
     StatusEthTxMsgSubmitted, StatusEthTxMsgMined, StatusEthTxMsgFailed, "", "UNKNOWN"}

NoCall == [op |-> "", txId |-> "", status |-> "", err |-> "", n |-> 0]

\* one call of a repository method: its result becomes the table, the call is
\* recorded with the error it returned
Returns(op, txId, status, result) ==
    /\ call.n < MaxCalls
    /\ transfers' = result.rows
    /\ before' = transfers
    /\ call' = [op |-> op, txId |-> txId, status |-> status, err |-> result.err, n |-> call.n + 1]
    /\ UNCHANGED <<watcherVars, schedulerVars, handlerVars>>

\* Repository.Create, for a transfer that has no row yet
Create ==
    \E txId \in TxIds, dbOk \in BOOLEAN :
        /\ txId \notin DOMAIN transfers
        /\ Returns("Create", txId, StatusInitial, create(transfers, txId, "100", StatusInitial, dbOk))

\* Repository.SaveRecoveredTxn, for a transfer that has no row yet
SaveRecoveredTxn ==
    \E txId \in TxIds, dbOk \in BOOLEAN :
        /\ txId \notin DOMAIN transfers
        /\ Returns("SaveRecoveredTxn", txId, StatusRecovered,
                   create(transfers, txId, "100", StatusRecovered, dbOk))

UpdateStatusInsufficientFee ==
    \E txId \in TxIds, dbOk \in BOOLEAN :
        Returns("UpdateStatusInsufficientFee", txId, StatusInsufficientFee,
                updateStatus(transfers, txId, StatusInsufficientFee, dbOk))

UpdateStatusCompleted ==
    \E txId \in TxIds, dbOk \in BOOLEAN :
        Returns("UpdateStatusCompleted", txId, StatusCompleted,
                updateStatus(transfers, txId, StatusCompleted, dbOk))

UpdateStatusSignatureSubmitted ==
    \E txId \in TxIds, dbOk \in BOOLEAN :
        Returns("UpdateStatusSignatureSubmitted", txId, StatusSignatureSubmitted,
                Updates(transfers, txId, UpdateStatusSignatureSubmittedFields, dbOk))

UpdateStatusSignatureMined ==
    \E txId \in TxIds, dbOk \in BOOLEAN :
        Returns("UpdateStatusSignatureMined", txId, StatusSignatureMined,
                updateSignatureStatus(transfers, txId, StatusSignatureMined, dbOk))

UpdateStatusSignatureFailed ==
    \E txId \in TxIds, dbOk \in BOOLEAN :
        Returns("UpdateStatusSignatureFailed", txId, StatusSignatureFailed,
                updateSignatureStatus(transfers, txId, StatusSignatureFailed, dbOk))

UpdateEthTxSubmitted ==
    \E txId \in TxIds, hash \in Hashes, dbOk \in BOOLEAN :
        Returns("UpdateEthTxSubmitted", txId, StatusEthTxSubmitted,
                Updates(transfers, txId, UpdateEthTxSubmittedFields(hash), dbOk))

UpdateEthTxMined ==
    \E txId \in TxIds, dbOk \in BOOLEAN :
        Returns("UpdateEthTxMined", txId, StatusEthTxMined,
                Updates(transfers, txId, UpdateEthTxMinedFields, dbOk))

UpdateEthTxReverted ==
    \E txId \in TxIds, dbOk \in BOOLEAN :
        Returns("UpdateEthTxReverted", txId, StatusEthTxReverted,
                Updates(transfers, txId, UpdateEthTxRevertedFields, dbOk))

UpdateStatusEthTxMsgSubmitted ==
    \E txId \in TxIds, dbOk \in BOOLEAN :
        Returns("UpdateStatusEthTxMsgSubmitted", txId, StatusEthTxMsgSubmitted,
                updateEthereumTxMsgStatus(transfers, txId, StatusEthTxMsgSubmitted, dbOk))

UpdateStatusEthTxMsgMined ==
    \E txId \in TxIds, dbOk \in BOOLEAN :
        Returns("UpdateStatusEthTxMsgMined", txId, StatusEthTxMsgMined,
                updateEthereumTxMsgStatus(transfers, txId, StatusEthTxMsgMined, dbOk))

UpdateStatusEthTxMsgFailed ==
    \E txId \in TxIds, dbOk \in BOOLEAN :
        Returns("UpdateStatusEthTxMsgFailed", txId, StatusEthTxMsgFailed,
                updateEthereumTxMsgStatus(transfers, txId, StatusEthTxMsgFailed, dbOk))

\* the guarded helpers, called with any target value
GuardedUpdateStatus ==
    \E txId \in TxIds, status \in AllStatuses, dbOk \in BOOLEAN :
        Returns("updateStatus", txId, status, updateStatus(transfers, txId, status, dbOk))

GuardedUpdateSignatureStatus ==
    \E txId \in TxIds, status \in AllStatuses, dbOk \in BOOLEAN :
        Returns("updateSignatureStatus", txId, status,
                updateSignatureStatus(transfers, txId, status, dbOk))

GuardedUpdateEthereumTxStatus ==
    \E txId \in TxIds, status \in AllStatuses, dbOk \in BOOLEAN :
        Returns("updateEthereumTxStatus", txId, status,
                updateEthereumTxStatus(transfers, txId, status, dbOk))

GuardedUpdateEthereumTxMsgStatus ==
    \E txId \in TxIds, status \in AllStatuses, dbOk \in BOOLEAN :
        Returns("updateEthereumTxMsgStatus", txId, status,
                updateEthereumTxMsgStatus(transfers, txId, status, dbOk))

\* NewRepository: no call made yet
InitRepository ==
    /\ transfers = << >>
    /\ call = NoCall
    /\ before = << >>

\* a process with one watcher
InitSingleWatcher ==
    /\ self = WatcherIds[1]
    /\ parked = << >>

---------------------------------------------------------------------------
(* Transfer handler (Handler.Handle): one payload at a time, through the   *)
(* calls it makes to the transfers service                                 *)

\* number of payloads handed to the handler
MaxPayloads == 3

\* a payload: whether encoding.NewTransferMessageFromBytes parses it, and the
\* fields of the message that Handle reads
Payloads == [parses : BOOLEAN, TransactionId : TxIds, ExecuteEthTransaction : BOOLEAN]

NoPayload == [parses |-> FALSE, TransactionId |-> "", ExecuteEthTransaction |-> FALSE]

\* Status of the record returned by InitiateNewTransfer
RecordStatuses ==
    {StatusInitial, StatusInsufficientFee, StatusInProgress, StatusCompleted, StatusFailed,
     StatusRecovered, ""}

\* results of InitiateNewTransfer: an error, a nil record with a nil error,
\* or a record with its Status
InitiateResults == {"error", "nil"} \cup RecordStatuses

\* results of VerifyFee and ProcessTransfer
ServiceResults == {"ok", "error"}

\* NewHandler: no payload handled yet
NoHandling == [pc |-> "idle", payload |-> NoPayload, calls |-> << >>, n |-> 0]

InitHandler == handling = NoHandling

\* the handler has returned from Handle (or was never called)
Returned == handling.pc = "idle"

\* mutant: a record stored earlier with another status is processed again
PreviouslyAddedIgnored(status) == FALSE

\* transactionRecord.Status != transfer.StatusInitial
PreviouslyAdded(status) == status # StatusInitial

\* Handle, up to the call of InitiateNewTransfer: the payload is parsed
Handle ==
    /\ handling.pc = "idle"
    /\ handling.n < MaxPayloads
    /\ \E payload \in Payloads :
          handling' = [pc |-> IF payload.parses THEN "initiate" ELSE "idle",
                       payload |-> payload, calls |-> << >>, n |-> handling.n + 1]
    /\ UNCHANGED <<watcherVars, repositoryVars, schedulerVars>>

\* InitiateNewTransfer returns: its error and the Status of its record are tested
HandleInitiateNewTransfer ==
    /\ handling.pc = "initiate"
    /\ \E result \in InitiateResults :
          handling' = [handling EXCEPT
              !.calls = Append(@, [op |-> "InitiateNewTransfer", result |-> result]),
              !.pc = IF result = "error" THEN "idle"
                     ELSE IF result = "nil" THEN "panicked"
                     ELSE IF PreviouslyAdded(result) THEN "idle"
                     ELSE IF handling.payload.ExecuteEthTransaction THEN "verifyFee"
                     ELSE "process"]
    /\ UNCHANGED <<watcherVars, repositoryVars, schedulerVars>>

\* VerifyFee returns
HandleVerifyFee ==
    /\ handling.pc = "verifyFee"
    /\ \E result \in ServiceResults :
          handling' = [handling EXCEPT
              !.calls = Append(@, [op |-> "VerifyFee", result |-> result]),
              !.pc = IF result = "error" THEN "idle" ELSE "process"]
    /\ UNCHANGED <<watcherVars, repositoryVars, schedulerVars>>

\* ProcessTransfer returns, and Handle with it
HandleProcessTransfer ==
    /\ handling.pc = "process"
    /\ \E result \in ServiceResults :
          handling' = [handling EXCEPT
              !.calls = Append(@, [op |-> "ProcessTransfer", result |-> result]),
              !.pc = "idle"]
    /\ UNCHANGED <<watcherVars, repositoryVars, schedulerVars>>

---------------------------------------------------------------------------
(* Specification of the watcher *)

Configs == [validator : {TRUE}, minAmount : {5}, decimalsFactor : {10}, monitoring : {TRUE}]

Init ==
    /\ InitSingleWatcher
    /\ head \in 0 .. 2
    /\ store = << >>
    /\ pc = "down"
    /\ config \in Configs
    /\ targetBlock = 0
    /\ fromBlock = 0
    /\ toBlock = 0
    /\ batch = << >>
    /\ idx = 1
    /\ queue = << >>
    /\ metrics = {}
    /\ reloads = NoReloads
    /\ run = [startBlock |-> 0, startHead |-> 0, hadPrior |-> FALSE, prior |-> 0,
              qStart |-> 0, done |-> 0, okTo |-> 0, failed |-> << >>, last |-> "",
              passed |-> {}, rewound |-> {}]
    /\ faults = 0
    /\ restarts = 0
    /\ InitRepository
    /\ InitHandler

Next ==
    \/ NewWatcher
    \/ NewWatcherFatal
    \/ Watch
    \/ BeginGet
    \/ LoopGet
    \/ LoopHead
    \/ Sleep
    \/ LoopFilter
    \/ ProcessLockLog
    \/ ProcessBurnLog
    \/ ProcessMintLog
    \/ ProcessUnlockLog
    \/ ProcessMemberUpdatedLog
    \/ UpdateWatermark
    \/ ChainAdvance
    \/ Crash

Spec == Init /\ [][Next]_vars

\* the steps of the watcher goroutine
Loop ==
    \/ BeginGet
    \/ LoopGet
    \/ LoopHead
    \/ Sleep
    \/ LoopFilter
    \/ ProcessLockLog
    \/ ProcessBurnLog
    \/ ProcessMintLog
    \/ ProcessUnlockLog
    \/ ProcessMemberUpdatedLog
    \/ UpdateWatermark

\* a constructed watcher is started, the goroutine keeps being scheduled
\* while the process runs, and the chain keeps growing (up to MaxHead); the
\* failures of the collaborators are bounded by MaxFaults, so every call
\* succeeds eventually
Fairness ==
    /\ WF_vars(Watch)
    /\ WF_vars(Loop)
    /\ SF_vars(ChainAdvance)

SpecLive == Init /\ [][Next]_vars /\ Fairness

---------------------------------------------------------------------------
(* Specification of the handlers: one fetched log of any shape is handled  *)
(* by a watcher in the middle of processLogs.  The router charges the      *)
(* service fee out of the amount, so serviceFee <= amount in every log.    *)

Amounts == {0, 5, 100, 1000}
ServiceFees == {0, 5, 100}
MinAmounts == {0, 50, 1000}
Receivers == {<< >>, <<7>>, <<0, 0, 5>>}

TransferLogs ==
    { Log(kind, "0xaa", 0, b, removed, malformed, token, amount, fee, chain, receiver) :
        kind \in {"Lock", "Burn"}, b \in {1, 2}, removed \in BOOLEAN, malformed \in BOOLEAN,
        token \in {"tokA", "wB", "wH"}, amount \in Amounts, fee \in ServiceFees,
        chain \in {0, 2, 3}, receiver \in Receivers }

CompletionLogs ==
    { Log(kind, "0xcc", 0, b, removed, malformed, token, 5, 0, chain, << >>) :
        kind \in {"Mint", "Unlock"}, b \in {1, 2}, removed \in BOOLEAN, malformed \in BOOLEAN,
        token \in {"tokA", "wB"}, chain \in {0, 2} }

MembershipLogs ==
    { Log("MemberUpdated", "0xdd", 0, b, removed, FALSE, "", 0, 0, 0, << >>) :
        b \in {1, 2}, removed \in BOOLEAN }

HandlerConfigs ==
    [validator : BOOLEAN, minAmount : MinAmounts, decimalsFactor : {1, 10}, monitoring : BOOLEAN]

InitHandlers ==
    /\ InitSingleWatcher
    /\ head = 4
    /\ targetBlock = ConstructedTargetBlock(0, 4)
    /\ config \in HandlerConfigs
    /\ \E l \in TransferLogs \cup CompletionLogs \cup MembershipLogs :
          /\ (l.kind = "Lock" => l.token # "wB")
          /\ (l.kind = "Burn" => l.serviceFee = 0)
          /\ l.serviceFee <= l.amount
          /\ batch = << l >>
          /\ fromBlock = l.blockNumber
          /\ toBlock = l.blockNumber
          /\ store = [i \in {dbIdentifier} |-> l.blockNumber]
    /\ pc = "logs"
    /\ idx = 1
    /\ queue = << >>
    /\ metrics = {}
    /\ reloads = NoReloads
    /\ run = [startBlock |-> 0, startHead |-> 4, hadPrior |-> FALSE, prior |-> 0,
              qStart |-> 0, done |-> 0, okTo |-> 0, failed |-> << >>, last |-> "",
              passed |-> {}, rewound |-> {}]
    /\ faults = 0
    /\ restarts = 1
    /\ InitRepository
    /\ InitHandler

NextHandlers ==
    \/ ProcessLockLog
    \/ ProcessBurnLog
    \/ ProcessMintLog
    \/ ProcessUnlockLog
    \/ ProcessMemberUpdatedLog

SpecHandlers == InitHandlers /\ [][NextHandlers]_vars

---------------------------------------------------------------------------
(* Specification of the membership refresh: one run of a watcher from      *)
(* block 0 on, together with the detached ReloadMembers tasks it starts;   *)
(* a task is never forced to end.                                          *)

InitRefresh ==
    /\ InitSingleWatcher
    /\ head = BlockConfirmations
    /\ store = [i \in {dbIdentifier} |-> 0]
    /\ pc = "constructed"
    /\ config \in Configs
    /\ targetBlock = ConstructedTargetBlock(0, BlockConfirmations)
    /\ fromBlock = 0
    /\ toBlock = 0
    /\ batch = << >>
    /\ idx = 1
    /\ queue = << >>
    /\ metrics = {}
    /\ reloads = NoReloads
    /\ run = [startBlock |-> 0, startHead |-> BlockConfirmations, hadPrior |-> FALSE,
              prior |-> 0, qStart |-> 0, done |-> 0, okTo |-> 0, failed |-> << >>, last |-> "",
              passed |-> {}, rewound |-> {}]
    /\ faults = 0
    /\ restarts = 1
    /\ InitRepository
    /\ InitHandler

NextRefresh ==
    \/ Watch
    \/ BeginGet
    \/ LoopGet
    \/ LoopHead
    \/ Sleep
    \/ LoopFilter
    \/ ProcessLockLog
    \/ ProcessBurnLog
    \/ ProcessMintLog
    \/ ProcessUnlockLog
    \/ ProcessMemberUpdatedLog
    \/ ReloadMembers
    \/ UpdateWatermark
    \/ ChainAdvance
    \/ Crash

SpecRefresh == InitRefresh /\ [][NextRefresh]_vars

---------------------------------------------------------------------------
(* Specification of several watchers: two watchers of distinct identities  *)
(* are constructed and run in one process, their steps interleaved in any  *)
(* order, on one chain and one status repository.                          *)

InitWatchers ==
    /\ self = WatcherIds[1]
    /\ parked = [i \in {WatcherIds[2]} |-> NotConstructed]
    /\ head \in {BlockConfirmations, 2 * BlockConfirmations}
    /\ store = << >>
    /\ pc = NotConstructed.pc
    /\ config \in Configs
    /\ targetBlock = NotConstructed.targetBlock
    /\ fromBlock = NotConstructed.fromBlock
    /\ toBlock = NotConstructed.toBlock
    /\ batch = NotConstructed.batch
    /\ idx = NotConstructed.idx
    /\ queue = << >>
    /\ metrics = {}
    /\ reloads = NoReloads
    /\ run = NotConstructed.run
    /\ faults = MaxFaults - 1
    /\ restarts = NotConstructed.restarts
    /\ InitRepository
    /\ InitHandler

NextWatchers ==
    \/ NewWatcher
    \/ Watch
    \/ BeginGet
    \/ LoopGet
    \/ LoopHead
    \/ Sleep
    \/ LoopFilter
    \/ ProcessLockLog
    \/ ProcessBurnLog
    \/ ProcessMintLog
    \/ ProcessUnlockLog
    \/ UpdateWatermark
    \/ Switch

SpecWatchers == InitWatchers /\ [][NextWatchers]_vars

---------------------------------------------------------------------------
(* Specification of the transfer repository: a sequence of calls on the    *)
(* rows of a few transfers, next to a watcher that has not been started.   *)

InitTransfers ==
    /\ InitSingleWatcher
    /\ head = 0
    /\ store = << >>
    /\ pc = "down"
    /\ config \in Configs
    /\ targetBlock = 0
    /\ fromBlock = 0
    /\ toBlock = 0
    /\ batch = << >>
    /\ idx = 1
    /\ queue = << >>
    /\ metrics = {}
    /\ reloads = NoReloads
    /\ run = [startBlock |-> 0, startHead |-> 0, hadPrior |-> FALSE, prior |-> 0,
              qStart |-> 0, done |-> 0, okTo |-> 0, failed |-> << >>, last |-> "",
              passed |-> {}, rewound |-> {}]
    /\ faults = 0
    /\ restarts = 0
    /\ InitRepository
    /\ InitHandler

NextTransfers ==
    \/ Create
    \/ SaveRecoveredTxn
    \/ UpdateStatusInsufficientFee
    \/ UpdateStatusCompleted
    \/ UpdateStatusSignatureSubmitted
    \/ UpdateStatusSignatureMined
    \/ UpdateStatusSignatureFailed
    \/ UpdateEthTxSubmitted
    \/ UpdateEthTxMined
    \/ UpdateEthTxReverted
    \/ UpdateStatusEthTxMsgSubmitted
    \/ UpdateStatusEthTxMsgMined
    \/ UpdateStatusEthTxMsgFailed
    \/ GuardedUpdateStatus
    \/ GuardedUpdateSignatureStatus
    \/ GuardedUpdateEthereumTxStatus
    \/ GuardedUpdateEthereumTxMsgStatus

SpecTransfers == InitTransfers /\ [][NextTransfers]_vars

---------------------------------------------------------------------------
(* Specification of the transfer handler: payloads handled one after       *)
(* another, next to a watcher that has not been started.                   *)

InitHandle ==
    /\ InitSingleWatcher
    /\ head = 0
    /\ store = << >>
    /\ pc = "down"
    /\ config \in Configs
    /\ targetBlock = 0
    /\ fromBlock = 0
    /\ toBlock = 0
    /\ batch = << >>
    /\ idx = 1
    /\ queue = << >>
    /\ metrics = {}
    /\ reloads = NoReloads
    /\ run = [startBlock |-> 0, startHead |-> 0, hadPrior |-> FALSE, prior |-> 0,
              qStart |-> 0, done |-> 0, okTo |-> 0, failed |-> << >>, last |-> "",
              passed |-> {}, rewound |-> {}]
    /\ faults = 0
    /\ restarts = 0
    /\ InitRepository
    /\ InitHandler

NextHandle ==
    \/ Handle
    \/ HandleInitiateNewTransfer
    \/ HandleVerifyFee
    \/ HandleProcessTransfer

SpecHandle == InitHandle /\ [][NextHandle]_vars

---------------------------------------------------------------------------
(* Vocabulary of the properties *)

DigitValue(c) == (CHOOSE d \in 1 .. 10 : Digits[d] = c) - 1

RECURSIVE NatValue(_)
NatValue(str) ==
    IF str = << >> THEN 0
    ELSE 10 * NatValue(SubSeq(str, 1, Len(str) - 1)) + DigitValue(str[Len(str)])

\* the number a decimal string denotes
DecimalValue(str) == IF str[1] = "-" THEN 0 - NatValue(Tail(str)) ELSE NatValue(str)

SigningTopics == {HederaFeeTransfer, HederaMintHtsTransfer, TopicMessageSubmission}
ReadOnlyTopics == {ReadOnlyHederaTransfer, ReadOnlyHederaMintHtsTransfer, ReadOnlyTransferSave}

\* the transaction identifiers of the logs of block b
TransactionIdsOfBlock(b) == {TransactionIdOf(ChainLogs(b)[i]) : i \in 1 .. Len(ChainLogs(b))}

\* the block of the log with a given transaction identifier
BlockOfTransactionId ==
    [id \in UNION {TransactionIdsOfBlock(b) : b \in 0 .. MaxHead} |->
        CHOOSE b \in 0 .. MaxHead : id \in TransactionIdsOfBlock(b)]

\* the block of the log a pushed Transfer was built from
BlockOfTransfer(tr) == BlockOfTransactionId[tr.TransactionId]

\* positions in the queue of the pushes of the current run
RunPushes == (run.qStart + 1) .. Len(queue)

\* the poll loop has read fromBlock and not yet ended the iteration
InIteration == pc \in {"head", "filter", "logs"}

\* the single log of the batch has been handled (handlers specification)
Handled(kind) == pc = "logs" /\ Len(batch) = 1 /\ idx = 2 /\ batch[1].kind = kind

---------------------------------------------------------------------------
(* C1 *)

\* C1: once an iteration of the run has completed successfully on
\* [fromBlock, toBlock], the stored watermark is toBlock + 1, and the
\* fromBlock of the following iteration is that value: consecutive
\* successful ranges neither overlap nor leave a block between them.
C1_WatermarkIsNextBlock ==
    run.done > 0 =>
        /\ StoreGet(dbIdentifier) = run.okTo + 1
        /\ (InIteration => fromBlock = run.okTo + 1)

\* two successful iterations, the third one has read its fromBlock
C1_Witness == run.done >= 2 /\ pc = "filter" /\ fromBlock = run.okTo + 1

---------------------------------------------------------------------------
(* C2 *)

\* number of pushes of the current run that carry the transaction id of push i
PushesLike(i) ==
    Cardinality({j \in RunPushes : queue[j].Payload.TransactionId = queue[i].Payload.TransactionId})

\* number of failed watermark updates of the current run whose range holds block b
FailedUpdatesOver(b) ==
    Cardinality({k \in 1 .. Len(run.failed) : run.failed[k][1] <= b /\ b <= run.failed[k][2]})

\* C2 as stated: within one run of the poll loop (construction to crash) no
\* transaction identifier is pushed twice.
C2_NoDuplicateInRun == \A i \in RunPushes : PushesLike(i) = 1

\* C2 amended: within one run a transaction identifier is pushed once, plus
\* once for every failed watermark update of a range holding its block; the
\* failures of Get, RetryBlockNumber and RetryFilterLogs add no push.
C2_DuplicateOnlyAfterFailedUpdate ==
    \A i \in RunPushes : PushesLike(i) <= 1 + FailedUpdatesOver(BlockOfTransfer(queue[i].Payload))

\* a failed watermark update was followed by a second push of the same event
C2_Witness ==
    /\ Len(run.failed) = 1
    /\ \E i \in RunPushes : PushesLike(i) = 2

---------------------------------------------------------------------------
(* C3 *)

\* C3: handling a Lock, Burn, Mint or Unlock log whose removed flag is set
\* pushes nothing and makes no metrics call.
C3_RemovedHasNoEffect ==
    \A kind \in {"Lock", "Burn", "Mint", "Unlock"} :
        (Handled(kind) /\ batch[1].removed) => (queue = << >> /\ metrics = {})

\* a removed Burn that would otherwise have been accepted was handled
C3_Witness ==
    /\ Handled("Burn")
    /\ batch[1].removed /\ ~batch[1].malformed
    /\ batch[1].token = "wH" /\ batch[1].chain = HederaNetworkId
    /\ batch[1].receiver = <<0, 0, 5>> /\ batch[1].amount = 1000
    /\ config.minAmount = 50 /\ config.monitoring
    /\ faults = 0

---------------------------------------------------------------------------
(* C4 *)

\* a Lock that passes the structural checks, between same-precision chains
StructurallySoundLock ==
    /\ Handled("Lock")
    /\ faults = 0
    /\ ~batch[1].removed /\ ~batch[1].malformed
    /\ Len(batch[1].receiver) > 0
    /\ (batch[1].chain = HederaNetworkId => AccountIDValid(batch[1].receiver))
    /\ NativeToWrapped(batch[1].token, ThisChainId, batch[1].chain) # ""
    /\ (batch[1].chain # HederaNetworkId \/ config.decimalsFactor = 1)

\* C4 as stated: such a Lock pushes a Transfer of amount - serviceFee, and
\* pushes nothing when amount - serviceFee is zero or below the minimum.
C4_LockAmountAfterFee ==
    StructurallySoundLock =>
        LET difference == batch[1].amount - batch[1].serviceFee
        IN  IF difference = 0 \/ difference < config.minAmount
            THEN queue = << >>
            ELSE Len(queue) = 1 /\ DecimalValue(queue[1].Payload.Amount) = difference

---------------------------------------------------------------------------
(* C5 *)

\* C5 as stated: every pushed Transfer has an amount that is strictly
\* positive and at least the minimum amount of its native asset.
C5_AmountPositiveAndAboveMinimum ==
    \A i \in 1 .. Len(queue) :
        /\ DecimalValue(queue[i].Payload.Amount) > 0
        /\ DecimalValue(queue[i].Payload.Amount) >= config.minAmount

---------------------------------------------------------------------------
(* C6 *)

\* C6: a Burn whose token resolves to a native asset with a home chain other
\* than the target chain of the event pushes nothing, in either mode.
C6_NoWrappedToWrappedPush ==
    (/\ Handled("Burn")
     /\ WrappedToNative(batch[1].token, ThisChainId) # Nil
     /\ WrappedToNative(batch[1].token, ThisChainId).ChainId # batch[1].chain)
    => queue = << >>

\* a sound Burn of wB (native on chain 2) towards Hedera reached the check
C6_Witness ==
    /\ Handled("Burn")
    /\ ~batch[1].removed /\ ~batch[1].malformed
    /\ batch[1].token = "wB" /\ batch[1].chain = HederaNetworkId
    /\ batch[1].receiver = <<0, 0, 5>> /\ batch[1].amount = 1000
    /\ config.minAmount = 50 /\ config.monitoring /\ ~config.validator
    /\ faults = 0
    /\ metrics # {}

---------------------------------------------------------------------------
(* C7 *)

\* the rule of C7 for the one message of the queue, with the signing topic
\* the claim names for a target that is the settlement chain
TopicRule(settlementTopic) ==
    LET msg   == queue[1]
        block == batch[1].blockNumber
    IN  IF config.validator /\ block >= targetBlock
        THEN /\ msg.Topic = IF msg.Payload.TargetChainId = HederaNetworkId
                            THEN settlementTopic ELSE TopicMessageSubmission
             /\ msg.Payload.Timestamp = << >>
        ELSE /\ msg.Topic \in ReadOnlyTopics
             /\ msg.Payload.Timestamp = FormatUint(GetBlockTimestamp(block))

\* C7 as stated: at most one push per event; the push goes to the
\* fee-handling topic (target Hedera) or the signature-submission topic, with
\* no timestamp, iff validator mode and block >= target block; otherwise to a
\* read-only topic with the timestamp of the block.
C7_TopicSelectionAsStated ==
    \A kind \in {"Lock", "Burn"} :
        Handled(kind) =>
            /\ Len(queue) <= 1
            /\ (Len(queue) = 1 => TopicRule(HederaFeeTransfer))

\* C7 amended: as stated for a Burn; for a Lock whose target is Hedera the
\* signing topic is the mint topic (HederaMintHtsTransfer).
C7_TopicSelection ==
    /\ Handled("Burn") =>
            /\ Len(queue) <= 1
            /\ (Len(queue) = 1 => TopicRule(HederaFeeTransfer))
    /\ Handled("Lock") =>
            /\ Len(queue) <= 1
            /\ (Len(queue) = 1 => TopicRule(HederaMintHtsTransfer))

\* a validator pushed a backlog Lock towards Hedera on a read-only topic
C7_Witness ==
    /\ Handled("Lock")
    /\ config.validator
    /\ batch[1].blockNumber < targetBlock
    /\ Len(queue) = 1
    /\ queue[1].Topic = ReadOnlyHederaMintHtsTransfer
    /\ queue[1].Payload.Timestamp # << >>

---------------------------------------------------------------------------
(* C8 *)

\* C8 as stated: a push of the run on a signing topic comes from a block at
\* or above the head at construction minus the confirmation depth.
C8_SignedOnlyFromStartupHead ==
    \A i \in RunPushes :
        queue[i].Topic \in SigningTopics =>
            BlockOfTransfer(queue[i].Payload) >= run.startHead - BlockConfirmations

\* the cutoff of the run: the start block when one was given, else the head
\* at construction minus the confirmation depth
Cutoff ==
    IF run.startBlock # 0 THEN run.startBlock ELSE run.startHead - BlockConfirmations

\* C8 amended: a push of the run on a signing topic comes from a block at or
\* above the cutoff of the run, which is the given start block when there is
\* one; blocks below the cutoff are pushed on read-only topics only.
C8_SignedOnlyFromCutoff ==
    \A i \in RunPushes :
        /\ queue[i].Topic \in SigningTopics => BlockOfTransfer(queue[i].Payload) >= Cutoff
        /\ BlockOfTransfer(queue[i].Payload) < Cutoff => queue[i].Topic \in ReadOnlyTopics

\* a restarted validator resumed below its cutoff and recorded a backlog
\* Transfer on a read-only topic
C8_Witness ==
    /\ config.validator
    /\ run.startBlock = 0 /\ run.hadPrior
    /\ \E i \in RunPushes :
          /\ BlockOfTransfer(queue[i].Payload) < Cutoff
          /\ queue[i].Topic \in ReadOnlyTopics

---------------------------------------------------------------------------
(* C9 *)

\* C9: a construction without a start block for an identity that has a
\* watermark leaves the watermark as it was, and the first iteration reads
\* it as fromBlock.
C9_ResumeKeepsWatermark ==
    (restarts > 0 /\ run.startBlock = 0 /\ run.hadPrior /\ run.done = 0) =>
        /\ StoreGet(dbIdentifier) = run.prior
        /\ (InIteration => fromBlock = run.prior)

\* a resumed watcher reads a watermark that differs from head - confirmations
C9_Witness ==
    /\ restarts > 1 /\ run.startBlock = 0 /\ run.hadPrior /\ run.done = 0
    /\ pc = "head"
    /\ fromBlock = run.prior
    /\ run.prior # run.startHead - BlockConfirmations

---------------------------------------------------------------------------
(* C10 *)

\* C10 as stated: after a construction with start block parameter S the
\* watermark is S, for every value of S.
C10_StartBlockAlwaysStored ==
    (restarts > 0 /\ run.done = 0) => StoreGet(dbIdentifier) = run.startBlock

\* C10 amended: after a construction with a start block S other than 0 the
\* watermark is S whatever was stored before, and the first iteration reads
\* it; a construction with start block 0 (none given) over an existing row
\* resumes from the stored watermark.
C10_StartBlockOverrides ==
    /\ (restarts > 0 /\ run.startBlock # 0 /\ run.done = 0) =>
            /\ StoreGet(dbIdentifier) = run.startBlock
            /\ (InIteration => fromBlock = run.startBlock)
    /\ (restarts > 0 /\ run.startBlock = 0 /\ run.hadPrior /\ run.done = 0) =>
            StoreGet(dbIdentifier) = run.prior

\* a start block replaced a different stored watermark and was read
C10_Witness ==
    /\ run.startBlock # 0 /\ run.hadPrior /\ run.prior # run.startBlock
    /\ run.done = 0
    /\ pc = "head"
    /\ fromBlock = run.startBlock

---------------------------------------------------------------------------
(* C11 *)

\* max(0, currentHead - confirmations) over the integers
MathematicalTargetBlock(currentHead) ==
    IF currentHead >= BlockConfirmations THEN currentHead - BlockConfirmations ELSE 0

\* C11 as stated: after a construction without a start block the target
\* block is max(0, head - confirmations) as a non-wrapping value (0 when the
\* head is below the confirmation depth), and the watermark created for a
\* new identity is that same non-negative value.
C11_TargetBlockNonWrapping ==
    (restarts > 0 /\ run.startBlock = 0) =>
        /\ targetBlock = MathematicalTargetBlock(run.startHead)
        /\ (~run.hadPrior /\ run.done = 0) =>
                StoreGet(dbIdentifier) = MathematicalTargetBlock(run.startHead)

---------------------------------------------------------------------------
(* C12 *)

\* the last call was op, on a transaction id that had a row
Called(op) == call.op = op /\ call.txId \in DOMAIN before

\* the last call was updateSignatureStatus on a row whose SignatureMsgStatus
\* was SignatureSubmitted
SignatureUpdateOfSubmitted ==
    /\ Called("updateSignatureStatus")
    /\ before[call.txId]["signature_msg_status"] = StatusSignatureSubmitted

\* C12 as stated: on a record in SignatureSubmitted, updateSignatureStatus
\* to any value other than SignatureMined and SignatureFailed returns an
\* error and leaves SignatureMsgStatus unchanged.
C12_OnlyMinedOrFailedAccepted ==
    (SignatureUpdateOfSubmitted /\ call.status \notin {StatusSignatureMined, StatusSignatureFailed}) =>
        /\ call.err # ""
        /\ transfers[call.txId]["signature_msg_status"] = StatusSignatureSubmitted

\* C12 amended: the accepted values are SignatureSubmitted, SignatureMined
\* and SignatureFailed.  Any other value returns the invalid-status error
\* and leaves the table unchanged; an accepted value that returns no error is
\* the stored SignatureMsgStatus afterwards (SignatureSubmitted is accepted
\* and stores the value the record already has).
C12_SignatureAllowList ==
    SignatureUpdateOfSubmitted =>
        IF call.status \in {StatusSignatureSubmitted, StatusSignatureMined, StatusSignatureFailed}
        THEN /\ call.err \in {"", ErrDatabase}
             /\ call.err = "" => transfers[call.txId]["signature_msg_status"] = call.status
             /\ call.err # "" => transfers = before
        ELSE /\ call.err = ErrInvalidStatus
             /\ transfers = before

\* a value of another track was refused on a record in SignatureSubmitted
C12_Witness ==
    /\ SignatureUpdateOfSubmitted
    /\ call.status = StatusEthTxMined
    /\ call.err = ErrInvalidStatus
    /\ transfers[call.txId]["signature_msg_status"] = StatusSignatureSubmitted

---------------------------------------------------------------------------
(* C13 *)

\* the guarded update helpers, the column each one writes and the target
\* values each one accepts
GuardedHelpers ==
    {"updateStatus", "updateSignatureStatus", "updateEthereumTxStatus", "updateEthereumTxMsgStatus"}

TrackColumn(op) ==
    CASE op = "updateStatus" -> "status"
      [] op = "updateSignatureStatus" -> "signature_msg_status"
      [] op = "updateEthereumTxStatus" -> "eth_tx_status"
      [] op = "updateEthereumTxMsgStatus" -> "eth_tx_msg_status"

TrackAllowList(op) ==
    CASE op = "updateStatus" ->
            {StatusInitial, StatusInsufficientFee, StatusInProgress, StatusCompleted}
      [] op = "updateSignatureStatus" ->
            {StatusSignatureSubmitted, StatusSignatureMined, StatusSignatureFailed}
      [] op = "updateEthereumTxStatus" ->
            {StatusEthTxSubmitted, StatusEthTxMined, StatusEthTxReverted}
      [] op = "updateEthereumTxMsgStatus" ->
            {StatusEthTxMsgSubmitted, StatusEthTxMsgMined, StatusEthTxMsgFailed}

\* the cells of the table that the last call changed
ChangedCells ==
    {<<t, c>> \in (DOMAIN transfers) \X Columns : t \notin DOMAIN before \/ transfers[t][c] # before[t][c]}

\* C13: on every status track a guarded update to a value outside the
\* allow-list of the track returns an invalid-status error and changes no
\* cell of the table; a value of the allow-list changes at most the column of
\* the track in the row of the given transaction id.
C13_GuardedUpdateFailsClosed ==
    call.op \in GuardedHelpers =>
        /\ DOMAIN transfers = DOMAIN before
        /\ IF call.status \in TrackAllowList(call.op)
           THEN /\ call.err \in {"", ErrDatabase}
                /\ ChangedCells \subseteq {<<call.txId, TrackColumn(call.op)>>}
                /\ (call.err = "" /\ call.txId \in DOMAIN transfers) =>
                        transfers[call.txId][TrackColumn(call.op)] = call.status
           ELSE /\ call.err \in {ErrInvalidStatus, ErrInvalidSignatureStatus}
                /\ ChangedCells = {}

\* with two rows in the table an accepted value changed one cell
C13_Witness ==
    /\ call.op = "updateEthereumTxMsgStatus"
    /\ Cardinality(DOMAIN before) = 2
    /\ call.status = StatusEthTxMsgMined
    /\ ChangedCells = {<<call.txId, "eth_tx_msg_status">>}

---------------------------------------------------------------------------
(* C14 *)

\* C14 as stated: after any sequence of update operations, a row whose
\* EthTxStatus is Mined has Status Completed and a row whose EthTxStatus is
\* Reverted has Status Failed.
C14_EthTxAndStatusAgree ==
    \A t \in DOMAIN transfers :
        /\ transfers[t]["eth_tx_status"] = StatusEthTxMined =>
                transfers[t]["status"] = StatusCompleted
        /\ transfers[t]["eth_tx_status"] = StatusEthTxReverted =>
                transfers[t]["status"] = StatusFailed

---------------------------------------------------------------------------
(* C15 *)

\* the range loop of processLogs is at a log that cannot be parsed
AtMalformedLog == pc = "logs" /\ idx <= Len(batch) /\ batch[idx].malformed

\* the range loop of processLogs is at a log that parses
AtParsedLog == pc = "logs" /\ idx <= Len(batch) /\ ~batch[idx].malformed

\* C15 as stated: a log whose parsing fails does not crash the watcher; it
\* is skipped with no queue push and no metrics call, and the range loop
\* goes on with the next log of the batch.
C15_ParseFailureSkipped ==
    [][AtMalformedLog =>
          /\ pc' # "panicked"
          /\ pc' = "logs" =>
                (idx' = idx + 1 /\ batch' = batch /\ queue' = queue /\ metrics' = metrics)]_vars

---------------------------------------------------------------------------
(* C16 *)

\* C16 as stated: a failure of the chain-identifier lookup in a handler does
\* not crash the watcher; the event is dropped without a queue push and the
\* range loop goes on with the next log.
C16_ChainLookupFailureDropsEvent ==
    [][AtParsedLog =>
          /\ pc' # "panicked"
          /\ (pc' = "logs" /\ faults' # faults) =>
                (idx' = idx + 1 /\ batch' = batch /\ queue' = queue)]_vars

---------------------------------------------------------------------------
(* C17 *)

\* C17: when the log query of an iteration fails, the iteration pushes
\* nothing, leaves the watermark unchanged and sleeps; the watermark is still
\* unchanged when the next iteration reads it, so that iteration starts from
\* the same fromBlock.
C17_FilterFailureRetriesSameRange ==
    [][/\ (pc = "filter" /\ faults' # faults /\ pc' # "down") =>
              (pc' = "sleep" /\ queue' = queue /\ metrics' = metrics /\ store' = store)
       /\ (run.last = "filterFailed" /\ pc = "sleep") =>
              (StoreGet(dbIdentifier) = fromBlock /\ queue' = queue /\ store' = store)
       /\ (run.last = "filterFailed" /\ pc = "get" /\ pc' = "head") =>
              fromBlock' = fromBlock]_vars

\* after a failed log query over a range that holds a Lock log, the next
\* iteration has read the same fromBlock and nothing was pushed
C17_Witness ==
    /\ run.last = "filterFailed"
    /\ pc = "head"
    /\ fromBlock = 1 /\ StoreGet(dbIdentifier) = 1
    /\ run.done = 1
    /\ Len(queue) = run.qStart

---------------------------------------------------------------------------
(* C18 *)

\* the blocks that get confirmed once the head has reached MaxHead
ConfirmedBlocks == 0 .. (MaxHead - BlockConfirmations)

\* C18 as stated (liveness): under fairness, whenever a watcher has been
\* constructed and its watermark is at or below a block b that gets
\* confirmed, the watermark eventually exceeds b, unless the process is
\* killed from outside.
C18_WatermarkPassesEveryBlock ==
    \A b \in ConfirmedBlocks :
        (StoreHas(dbIdentifier) /\ StoreGet(dbIdentifier) <= b)
            ~> (pc = "down" \/ (StoreHas(dbIdentifier) /\ StoreGet(dbIdentifier) > b))

---------------------------------------------------------------------------
(* C19 *)

\* C19 as stated: a log query has fromBlock <= toBlock, toBlock <= head -
\* confirmations and toBlock <= fromBlock + maxLogsBlocks; when fromBlock is
\* above head - confirmations, and whenever the head is below the
\* confirmation depth, no query is issued and the watermark is not changed.
C19_QueryRangeWellFormed ==
    [][/\ (pc = "head" /\ pc' = "filter") =>
              /\ fromBlock <= toBlock'
              /\ toBlock' <= head - BlockConfirmations
              /\ toBlock' <= fromBlock + MaxLogsBlocks
       /\ (pc = "head" /\ (fromBlock > head - BlockConfirmations \/ head < BlockConfirmations)) =>
              (pc' # "filter" /\ store' = store)]_vars

---------------------------------------------------------------------------
(* C20 *)

\* C20 as stated: when reading fromBlock from the store fails, before or
\* inside the loop, the watcher goes to sleep before it reads again, and
\* makes no chain call and no watermark update.
C20_GetFailureSleeps ==
    [][(pc \in {"begin", "get"} /\ faults' # faults /\ pc' # "down") =>
          (pc' \in {"sleep", "beginSleep"} /\ store' = store /\ queue' = queue)]_vars

---------------------------------------------------------------------------
(* C21 *)

\* the range loop of processLogs is at an event that a business rule rejects
AtRejectedLog == pc = "logs" /\ idx <= Len(batch) /\ BusinessRuleRejected(batch[idx])

\* a step of the poll loop, no collaborator failing and no kill: the handler
\* of a rejected event pushes nothing and the range loop goes on with the
\* next log; the update after a batch that held a rejected event stores
\* toBlock + 1
RejectedDroppedStep ==
    /\ (AtRejectedLog /\ faults' = faults /\ reloads' = reloads) =>
           /\ queue' = queue
           /\ pc' = "logs" /\ idx' = idx + 1 /\ batch' = batch
           /\ store' = store
    /\ (/\ pc = "logs" /\ idx > Len(batch)
        /\ \E i \in 1 .. Len(batch) : BusinessRuleRejected(batch[i])
        /\ faults' = faults /\ reloads' = reloads) =>
           store'[dbIdentifier] = toBlock + 1

\* C21 as stated: a Lock or Burn rejected by a business rule gives no queue
\* push, does not abort the batch and does not keep the watermark from
\* advancing to toBlock + 1; once a watermark update has covered its block
\* the event is never handed to a handler again.
C21_RejectedNeverHandledAgain ==
    /\ [][RejectedDroppedStep]_vars
    /\ [](AtRejectedLog => batch[idx].blockNumber \notin run.passed)

\* C21 amended: as above, but the event is not handed to a handler again by
\* the run that passed it, nor by a later run unless a watcher was constructed
\* in between with a start block at or below the block of the event, which
\* puts the watermark back.
C21_RejectedHandledAgainOnlyAfterRewind ==
    /\ [][RejectedDroppedStep]_vars
    /\ [](AtRejectedLog =>
             /\ (run.done > 0 => batch[idx].blockNumber > run.okTo)
             /\ (batch[idx].blockNumber \in run.passed =>
                    batch[idx].blockNumber \in run.rewound))

\* the Lock towards a chain the asset is not bridged to was dropped, the
\* watermark passed its block, and a watcher constructed with start block 1
\* is handing it to the handler again; nothing was pushed for it
C21_Witness ==
    /\ AtRejectedLog
    /\ batch[idx].txHash = "0xa6"
    /\ 1 \in run.passed
    /\ run.startBlock = 1
    /\ \A i \in 1 .. Len(queue) : queue[i].Payload.TransactionId # TransactionIdOf(batch[idx])

---------------------------------------------------------------------------
(* C22 *)

\* the poll loop has a watcher that was started and is alive
LoopAlive == pc \notin {"down", "panicked", "constructed"}

\* what the poll loop works on and what it produces
LoopState == <<pc, fromBlock, toBlock, batch, idx, queue, metrics, store, run>>

\* the step of the poll loop on a MemberUpdated log starts one refresh task
\* and goes on with the next log, with no push and no watermark change; the
\* end of a refresh task, successful or failed, changes nothing the poll
\* loop works on
RefreshDetachedStep ==
    /\ (Current("MemberUpdated") /\ reloads'.started # reloads.started) =>
           /\ reloads'.running = reloads.running + 1
           /\ pc' = "logs" /\ idx' = idx + 1 /\ batch' = batch
           /\ queue' = queue /\ store' = store
    /\ (reloads'.running < reloads.running /\ pc' # "constructed") =>
           UNCHANGED LoopState

\* C22: a MemberUpdated log starts the membership refresh as a detached
\* task: the poll loop goes on with the next log without waiting, and
\* whatever refresh tasks are running, failed or never ending, the poll loop
\* has its next step, the watermark update included; the end of a task
\* changes neither the watermark nor the pushes.
C22_RefreshIsDetached ==
    /\ [][RefreshDetachedStep]_vars
    /\ [](LoopAlive => ENABLED Loop)
    /\ []((pc = "logs" /\ idx > Len(batch)) => ENABLED UpdateWatermark)

\* the refresh started by the MemberUpdated log of block 3 is still running
\* while the Lock that follows it in the batch was pushed and the watermark
\* has passed block 3
C22_Witness ==
    /\ reloads.started = 1 /\ reloads.running = 1
    /\ StoreGet(dbIdentifier) = 4
    /\ \E i \in 1 .. Len(queue) : queue[i].Payload.TransactionId = <<"0xa3", "-", "2">>

---------------------------------------------------------------------------
(* C23 *)

\* C23 as stated: a returned log of any kind, MemberUpdated included, that
\* carries the removed flag is discarded with no side effect: no push, no
\* metrics call and no membership refresh started.
C23_RemovedLogOfAnyKindDiscarded ==
    \A kind \in {"Lock", "Burn", "Mint", "Unlock", "MemberUpdated"} :
        (Handled(kind) /\ batch[1].removed) =>
            (queue = << >> /\ metrics = {} /\ reloads = NoReloads)

---------------------------------------------------------------------------
(* C24 *)

\* the native chain and asset behind an asset of a chain
NativeOf(chainId, asset) ==
    IF \E e \in Bridged : e[3] = chainId /\ e[4] = asset
    THEN LET e == CHOOSE x \in Bridged : x[3] = chainId /\ x[4] = asset IN <<e[1], e[2]>>
    ELSE <<chainId, asset>>

\* the assets of chain sourceChainId that stand for the same native asset
\* as token does on chain targetChainId
OppositeAssets(sourceChainId, targetChainId, token) ==
    { e[2] : e \in {x \in Bridged : x[1] = sourceChainId
                                    /\ <<x[1], x[2]>> = NativeOf(targetChainId, token)} }
    \cup
    { e[4] : e \in {x \in Bridged : x[3] = sourceChainId
                                    /\ <<x[1], x[2]>> = NativeOf(targetChainId, token)} }

\* the completion metric a Mint / Unlock log stands for
CompletionMetrics(eventLog) ==
    { Metric("SetUserGetHisTokens", eventLog.chain, ThisChainId, asset, AppTransactionIdOf(eventLog)) :
        asset \in OppositeAssets(eventLog.chain, ThisChainId, eventLog.token) }

\* C24: handling a Mint or an Unlock log pushes nothing, in validator and
\* in read-only mode and below and above the target block; it starts no
\* refresh and leaves the watermark alone; the only effect is the completion
\* metric keyed by the opposite-chain asset, made unless the log is removed
\* or the chain lookup fails.
C24_CompletionLogsOnlyUpdateMetrics ==
    \A kind \in {"Mint", "Unlock"} :
        Handled(kind) =>
            /\ queue = << >>
            /\ reloads = NoReloads
            /\ StoreGet(dbIdentifier) = batch[1].blockNumber
            /\ metrics \subseteq CompletionMetrics(batch[1])
            /\ (metrics = {}) = (batch[1].removed \/ batch[1].malformed \/ faults > 0)

\* a Mint of wB coming from chain 2 was handled by a validator at the target
\* block: the metric is keyed by B, the asset of chain 2
C24_Witness ==
    /\ Handled("Mint")
    /\ config.validator /\ Uint64(batch[1].blockNumber) >= targetBlock
    /\ batch[1].token = "wB" /\ batch[1].chain = 2
    /\ \E m \in metrics : m.asset = "B" /\ m.source = 2 /\ m.target = ThisChainId
    /\ queue = << >>

---------------------------------------------------------------------------
(* C25 *)

\* a Transfer built from a Lock: the source side is the native side and the
\* target asset is the wrapped asset of the source asset on the target chain
LockTransferConsistent(tr) ==
    /\ tr.SourceChainId = ThisChainId
    /\ tr.NativeChainId = tr.SourceChainId
    /\ tr.NativeAsset = tr.SourceAsset
    /\ tr.TargetAsset # ""
    /\ <<tr.SourceChainId, tr.SourceAsset, tr.TargetChainId, tr.TargetAsset>> \in Bridged

\* a Transfer built from a Burn: the target side is the native side, the
\* home of the asset the burnt token wraps
BurnTransferConsistent(tr) ==
    /\ tr.SourceChainId = ThisChainId
    /\ tr.NativeChainId = tr.TargetChainId
    /\ tr.TargetAsset = tr.NativeAsset
    /\ <<tr.NativeChainId, tr.NativeAsset, tr.SourceChainId, tr.SourceAsset>> \in Bridged

\* C25: every Transfer pushed for a Lock has nativeChainId = sourceChainId,
\* nativeAsset = sourceAsset and the resolved, non-empty wrapped asset as
\* targetAsset; every Transfer pushed for a Burn has nativeChainId =
\* targetChainId = the home chain of the resolved native asset and
\* targetAsset = nativeAsset.
C25_NativeTargetConsistency ==
    \A i \in 1 .. Len(queue) :
        /\ Handled("Lock") => LockTransferConsistent(queue[i].Payload)
        /\ Handled("Burn") => BurnTransferConsistent(queue[i].Payload)
        /\ queue[i].Payload.SourceAsset = batch[1].token
        /\ queue[i].Payload.TargetChainId = batch[1].chain

\* a Burn of wB towards chain 2, the home of B, was pushed
C25_Witness ==
    /\ Handled("Burn")
    /\ Len(queue) = 1
    /\ queue[1].Payload.SourceAsset = "wB"
    /\ queue[1].Payload.NativeChainId = 2 /\ queue[1].Payload.TargetChainId = 2
    /\ queue[1].Payload.TargetAsset = "B"

---------------------------------------------------------------------------
(* C26 *)

\* the overall statuses a record does not leave
TerminalStatuses == {StatusCompleted, StatusFailed, StatusInsufficientFee}

\* C26 as stated: under the repository's update operations the overall
\* Status of a record moves forward only: a record in Completed, Failed or
\* InsufficientFee keeps its Status, and a record in InProgress does not go
\* back to Initial.
C26_StatusMovesForwardOnly ==
    call.op \notin GuardedHelpers =>
        \A t \in DOMAIN before \cap DOMAIN transfers :
            /\ before[t]["status"] \in TerminalStatuses =>
                    transfers[t]["status"] = before[t]["status"]
            /\ before[t]["status"] = StatusInProgress =>
                    transfers[t]["status"] # StatusInitial

---------------------------------------------------------------------------
(* C27 *)

\* the single-track update methods and the column of each
SingleTrackColumn ==
    [op \in {"UpdateStatusSignatureMined", "UpdateStatusSignatureFailed",
             "UpdateStatusEthTxMsgSubmitted", "UpdateStatusEthTxMsgMined",
             "UpdateStatusEthTxMsgFailed"} |->
        IF op \in {"UpdateStatusSignatureMined", "UpdateStatusSignatureFailed"}
        THEN "signature_msg_status" ELSE "eth_tx_msg_status"]

\* C27: UpdateStatusSignatureMined and UpdateStatusSignatureFailed change
\* only SignatureMsgStatus, UpdateStatusEthTxMsgSubmitted, Mined and Failed
\* change only EthTxMsgStatus, each in the row of the given transaction id:
\* the overall Status, the EthTxStatus, the other columns and every other
\* record are as before, and no row is added or removed.
C27_SingleTrackUpdatesIndependent ==
    call.op \in DOMAIN SingleTrackColumn =>
        /\ DOMAIN transfers = DOMAIN before
        /\ ChangedCells \subseteq {<<call.txId, SingleTrackColumn[call.op]>>}
        /\ (call.err = "" /\ call.txId \in DOMAIN transfers) =>
                transfers[call.txId][SingleTrackColumn[call.op]] = call.status
        /\ call.err \in {"", ErrDatabase}

\* the signature of a record in progress failed: only SignatureMsgStatus
\* changed, the overall Status still is InProgress
C27_Witness ==
    /\ Called("UpdateStatusSignatureFailed")
    /\ before[call.txId]["status"] = StatusInProgress
    /\ ChangedCells = {<<call.txId, "signature_msg_status">>}
    /\ transfers[call.txId]["signature_msg_status"] = StatusSignatureFailed
    /\ transfers[call.txId]["status"] = StatusInProgress

---------------------------------------------------------------------------
(* C28 *)

\* the watermark a watcher has last written, by the history of its run: the
\* block after its last successful range, or else the one of its construction
OwnWatermark(r) ==
    IF r.done > 0 THEN r.okTo + 1
    ELSE IF r.startBlock # 0 THEN r.startBlock
    ELSE IF r.hadPrior THEN r.prior
    ELSE Int64(Max(0, Uint64(r.startHead - BlockConfirmations)))

\* the state of watcher w, running or parked
StateOf(w) == IF w = self THEN OwnState ELSE parked[w]

\* a step changes no row but the one of the watcher that takes it, creates
\* no other row, and the watcher reads its fromBlock from its own row
OwnRowOnlyStep ==
    /\ \A i \in DOMAIN store : i # self => (i \in DOMAIN store' /\ store'[i] = store[i])
    /\ DOMAIN store' \subseteq DOMAIN store \cup {self}
    /\ (pc = "get" /\ pc' = "head" /\ self' = self) => fromBlock' = store[self]

\* C28: with several watchers of distinct identities running interleaved,
\* every step reads, creates and updates only the row of the watcher that
\* takes it, and the row of every watcher holds what that watcher itself
\* has last written, as if it ran alone.
C28_WatchersOwnTheirRows ==
    /\ [][OwnRowOnlyStep]_vars
    /\ [](\A w \in DOMAIN parked \cup {self} :
             IF StateOf(w).pc = "down"
             THEN w \notin DOMAIN store
             ELSE w \in DOMAIN store /\ store[w] = OwnWatermark(StateOf(w).run))

\* the second watcher has completed an iteration and moved its watermark
\* to 3 while the first one, started from block 1, stands in the middle of
\* its range loop with its watermark still at 1
C28_Witness ==
    /\ self = WatcherIds[2]
    /\ run.done = 1
    /\ parked[WatcherIds[1]].pc = "logs"
    /\ parked[WatcherIds[1]].idx = 2
    /\ store[WatcherIds[1]] = 1
    /\ store[WatcherIds[2]] = 3

---------------------------------------------------------------------------
(* C29: what Handle calls for a payload *)

\* positions in the calls made for the current payload
CallsOf(op) == {i \in DOMAIN handling.calls : handling.calls[i].op = op}

CallsWith(op, result) ==
    {i \in CallsOf(op) : handling.calls[i].result = result}

\* C29: ProcessTransfer is called for a payload only after
\* InitiateNewTransfer succeeded with a record whose Status is Initial and,
\* when the message has ExecuteEthTransaction set, only after VerifyFee
\* succeeded; a payload that does not parse, an initiation error, a record
\* with another status and a fee-verification failure each end the handling
\* with no ProcessTransfer call; VerifyFee is not called when
\* ExecuteEthTransaction is false
C29_ProcessTransferOnlyAfterChecks ==
    /\ \A i \in CallsOf("ProcessTransfer") :
          /\ \E j \in CallsWith("InitiateNewTransfer", StatusInitial) : j < i
          /\ handling.payload.ExecuteEthTransaction =>
                 \E j \in CallsWith("VerifyFee", "ok") : j < i
    /\ ~handling.payload.parses => handling.calls = << >> /\ Returned
    /\ (\E j \in CallsOf("InitiateNewTransfer") :
            handling.calls[j].result # StatusInitial) =>
           /\ CallsOf("ProcessTransfer") = {} /\ CallsOf("VerifyFee") = {}
           /\ handling.pc \in {"idle", "panicked"}
    /\ CallsWith("VerifyFee", "error") # {} =>
           CallsOf("ProcessTransfer") = {} /\ Returned
    /\ ~handling.payload.ExecuteEthTransaction => CallsOf("VerifyFee") = {}

\* the second payload handled has ExecuteEthTransaction set: the record came
\* back Initial, the fee was verified and ProcessTransfer was called last
C29_Witness ==
    /\ handling.n = 2
    /\ handling.payload.ExecuteEthTransaction
    /\ Returned
    /\ handling.calls = <<[op |-> "InitiateNewTransfer", result |-> StatusInitial],
                          [op |-> "VerifyFee", result |-> "ok"],
                          [op |-> "ProcessTransfer", result |-> "error"]>>

---------------------------------------------------------------------------
(* C30: the watermark within one run of the poll loop *)

\* processLogs returns nil: the range loop is over and repository.Update
\* succeeded
IterationSucceeds ==
    /\ pc = "logs" /\ idx > Len(batch)
    /\ pc' = "sleep"
    /\ faults' = faults

\* a step of the run that is under way: no watcher is constructed
WatermarkMonotoneStep ==
    (restarts' = restarts /\ StoreHas(dbIdentifier)) =>
        /\ dbIdentifier \in DOMAIN store'
        /\ store'[dbIdentifier] >= StoreGet(dbIdentifier)
        /\ IterationSucceeds =>
               /\ store'[dbIdentifier] > StoreGet(dbIdentifier)
               /\ StoreGet(dbIdentifier) = fromBlock
               /\ store'[dbIdentifier] = toBlock + 1
        /\ ~IterationSucceeds => store' = store

\* C30: within one uninterrupted run of the poll loop (no restart, no new
\* construction) the stored watermark of the watcher's identity never
\* decreases; it strictly increases on every iteration that completes
\* successfully, and failed or idle iterations leave it unchanged
C30_WatermarkMonotoneWithinRun ==
    /\ [][WatermarkMonotoneStep]_vars
    /\ [](~Stopped => StoreHas(dbIdentifier))

\* the first run of the watcher has completed two iterations and failed
\* one in between; it is idle with the watermark past the confirmed block
C30_Witness ==
    /\ restarts = 1
    /\ run.done = 2
    /\ Len(run.failed) = 1
    /\ pc = "head"
    /\ StoreHas(dbIdentifier)
    /\ StoreGet(dbIdentifier) = run.okTo + 1
    /\ fromBlock > ConfirmedBlock(head)

---------------------------------------------------------------------------
(* C31: the logs of one range are handled one after another, in order *)

\* the range loop of processLogs stands on a log of the batch
AtLog == pc = "logs" /\ idx <= Len(batch)

\* the messages a step has added at the end of the queue
Pushed == (Len(queue) + 1) .. Len(queue')

SequentialStep ==
    /\ Len(queue') >= Len(queue)
    /\ SubSeq(queue', 1, Len(queue)) = queue
    /\ Pushed # {} =>
           /\ AtLog
           /\ batch[idx].kind \in {"Lock", "Burn"}
           /\ \A k \in Pushed :
                  queue'[k].Payload.TransactionId = TransactionIdOf(batch[idx])
    /\ (AtLog /\ pc' = "logs") =>
           /\ idx' = idx + 1
           /\ batch' = batch
    /\ AtLog => store' = store
    /\ (store' # store /\ restarts' = restarts) =>
           /\ pc = "logs" /\ idx = Len(batch) + 1
           /\ queue' = queue

\* C31: within one processed range the logs are handled one after another
\* in the order returned by the log query: a step of the range loop handles
\* the log the loop stands on and moves to the next one, the messages it
\* pushes are those of that log and go to the end of the queue, so the
\* pushes of a batch are in the order of their logs; the watermark is
\* updated only when every log of the batch has been handled
C31_LogsHandledInOrder ==
    /\ [][SequentialStep]_vars
    /\ [](pc = "logs" => idx \in 1 .. Len(batch) + 1)

\* the range [1, 2] was processed: the Lock of block 1 was pushed before
\* the Burn of block 2, and then the watermark was moved to 3
C31_Witness ==
    /\ pc = "sleep"
    /\ run.done = 1 /\ run.okTo = 2
    /\ StoreHas(dbIdentifier) /\ StoreGet(dbIdentifier) = 3
    /\ Len(queue) = run.qStart + 2
    /\ queue[run.qStart + 1].Payload.TransactionId = TransactionIdOf(ChainLogs(1)[1])
    /\ queue[run.qStart + 2].Payload.TransactionId = TransactionIdOf(ChainLogs(2)[2])

=============================================================================
